---- MODULE Spec2Model ----
(***************************************************************************)
(* Model of the Hoosat address codec of                                    *)
(* hoosat-dev/assets/generate-address-standalone.py: the bit regrouper     *)
(* (convert_bits), the checksum engine (polymod_step, calculate_checksum,  *)
(* verify_checksum), the base32 mapping and the address encoder/decoder    *)
(* with the validator built on them.                                       *)
(*                                                                         *)
(* Text is a sequence of character codes (ord), so that lower(), rfind()   *)
(* and "ord(char) & 0x1f" are computed and not assumed.  A Python value    *)
(* that is a list or a bytes object is a record [kind, items]; a call      *)
(* either returns Ok(value) or raises, Raise(exception class, message).    *)
(***************************************************************************)
EXTENDS Integers, Sequences, FiniteSets, TLC

----------------------------------------------------------------------------
(* Python values and outcomes *)

PyList(s) == [kind |-> "list", items |-> s]

PyBytes(s) == [kind |-> "bytes", items |-> s]

Ok(v) == [ok |-> TRUE, val |-> v]

Raise(e, m) == [ok |-> FALSE, exc |-> e, msg |-> m]

\* a + b on two sequence objects: list + bytes is a TypeError
PyConcat(a, b) ==
  IF a.kind = b.kind
  THEN Ok([kind |-> a.kind, items |-> a.items \o b.items])
  ELSE Raise("TypeError", "can only concatenate")

----------------------------------------------------------------------------
(* Bit operations on naturals *)

Pow2(n) == 2 ^ n

RECURSIVE BitXorSlow(_, _)
BitXorSlow(a, b) ==
  IF a = 0 THEN b
  ELSE IF b = 0 THEN a
  ELSE ((a + b) % 2) + 2 * BitXorSlow(a \div 2, b \div 2)

\* a ^ b, five bits at a time
XorTable == [a \in 0..31 |-> [b \in 0..31 |-> BitXorSlow(a, b)]]

\* the k-th group of five bits of a ^ b, in its place
XorGroup(a, b, k) == XorTable[(a \div 32 ^ k) % 32][(b \div 32 ^ k) % 32] * 32 ^ k

\* a ^ b on naturals below 2^31
BitXor(a, b) ==
  CHOOSE r \in
    { XorGroup(x, y, 0) + XorGroup(x, y, 1) + XorGroup(x, y, 2) + XorGroup(x, y, 3)
        + XorGroup(x, y, 4) + XorGroup(x, y, 5) + XorGroup(x, y, 6) :
        x \in {a}, y \in {b} } : TRUE

\* a | b, from a + b = (a ^ b) + 2 * (a & b)
BitOr(a, b) ==
  CHOOSE r \in { (x + y + BitXor(x, y)) \div 2 : x \in {a}, y \in {b} } : TRUE

\* s[a..b] with Python's clamping of an empty range
Slice(s, a, b) == IF a > b THEN <<>> ELSE SubSeq(s, a, b)

\* s[:-n] and s[-n:] for n > 0, as Python clamps them
DropLast(s, n) == Slice(s, 1, Len(s) - n)

TakeLast(s, n) == IF Len(s) <= n THEN s ELSE SubSeq(s, Len(s) - n + 1, Len(s))

----------------------------------------------------------------------------
(* Constants of the codec *)

\* 'qpzry9x8gf2tvdw0s3jn54khce6mua7l' as character codes
CHARSET ==
  << 113, 112, 122, 114, 121, 57, 120, 56, 103, 102, 50, 116, 118, 100, 119, 48,
     115, 51, 106, 110, 53, 52, 107, 104, 99, 101, 54, 109, 117, 97, 55, 108 >>

CHECKSUM_LENGTH == 8

\* A Python integer of up to 51 bits is the pair <<high part, low 20 bits>>
Limb == Pow2(20)

Int40(hi, lo) == <<hi, lo>>

\* 0x98f2bc8e61, 0x79b76d99e2, 0xf33e5fb3c4, 0xae2eabe2a8, 0x1e4f43e470
GENERATOR ==
  << Int40(626475, 822881), Int40(498550, 891362), Int40(996325, 1029060),
     Int40(713450, 778920), Int40(124148, 255088) >>

\* ':' as a character code, and the two network prefixes 'hoosat', 'hoosattest'
Colon == 58

NETWORK_PREFIXES ==
  [ mainnet |-> <<104, 111, 111, 115, 97, 116>>,
    testnet |-> <<104, 111, 111, 115, 97, 116, 116, 101, 115, 116>> ]

----------------------------------------------------------------------------
(* BitRegrouper *)

\* (CHOOSE r \in {F(x) : x \in {e}} : TRUE is F(e) with e evaluated once and
\* first: each statement of the code works on the values the statements
\* before it left.)

\* One pass of the "for value in data" loop: st = [acc, bits, out].  Python's
\* next_byte is never masked; only its low filled_bits bits are read again,
\* and those are what acc keeps.
RECURSIVE EmitWhile(_, _)
EmitWhile(st, to_bits) ==
  IF st.bits >= to_bits
  THEN CHOOSE r \in
         { EmitWhile(next, to_bits) :
             next \in { [acc |-> st.acc,
                         bits |-> st.bits - to_bits,
                         out |-> Append(st.out,
                                   (st.acc \div Pow2(st.bits - to_bits)) % Pow2(to_bits))] } } : TRUE
  ELSE [acc |-> st.acc % Pow2(st.bits), bits |-> st.bits, out |-> st.out]

\* the body of the for loop for one value
ConvertValue(st, value, from_bits, to_bits) ==
  CHOOSE r \in
    { EmitWhile(shifted, to_bits) :
        shifted \in { [acc |-> BitOr(st.acc * Pow2(from_bits), value),
                       bits |-> st.bits + from_bits,
                       out |-> st.out] } } : TRUE

\* the loop over data[first..last]: over the first half, then over the rest
RECURSIVE ConvertRange(_, _, _, _, _, _)
ConvertRange(data, first, last, st, from_bits, to_bits) ==
  IF first > last THEN st
  ELSE IF first = last THEN ConvertValue(st, data[first], from_bits, to_bits)
  ELSE CHOOSE r \in
         { ConvertRange(data, (first + last) \div 2 + 1, last, half, from_bits, to_bits) :
             half \in { ConvertRange(data, first, (first + last) \div 2, st,
                                      from_bits, to_bits) } } : TRUE

ConvertLoop(data, i, st, from_bits, to_bits) ==
  CHOOSE r \in
    { ConvertRange(values, i, Len(values), start, from_bits, to_bits) :
        values \in {data}, start \in {st} } : TRUE

\* after the loop: the padding symbol, if asked for and bits are left
ConvertFinish(st, to_bits, pad) ==
  IF pad /\ st.bits > 0
  THEN PyList(Append(st.out, (st.acc * Pow2(to_bits - st.bits)) % Pow2(to_bits)))
  ELSE PyList(st.out)

\* convert_bits with "if pad and filled_bits > 0" read as "if filled_bits > 0"
convert_bits_always_pad(data, from_bits, to_bits, pad) ==
  CHOOSE r \in
    { ConvertFinish(st, to_bits, TRUE) :
        st \in { ConvertLoop(data, 1, [acc |-> 0, bits |-> 0, out |-> <<>>],
                             from_bits, to_bits) } } : TRUE

convert_bits(data, from_bits, to_bits, pad) ==
  CHOOSE r \in
    { ConvertFinish(st, to_bits, pad) :
        st \in { ConvertLoop(data, 1, [acc |-> 0, bits |-> 0, out |-> <<>>],
                             from_bits, to_bits) } } : TRUE

----------------------------------------------------------------------------
(* ChecksumEngine *)

RECURSIVE ApplyGenerators(_, _, _)
ApplyGenerators(c, b, i) ==
  IF i > Len(GENERATOR) THEN c
  ELSE CHOOSE r \in
         { ApplyGenerators(next, top, i + 1) :
             next \in { IF (b \div Pow2(i - 1)) % 2 = 1
                        THEN Int40(BitXor(c[1], GENERATOR[i][1]),
                                   BitXor(c[2], GENERATOR[i][2]))
                        ELSE c },
             top \in {b} } : TRUE

\* polymod_step without the mask 0x7ffffffff on the previous accumulator
polymod_step_no_mask(prev, value) ==
  CHOOSE r \in
    { ApplyGenerators(c, p[1] \div 32768, 1) :
        c \in { Int40(BitXor(p[1] * 32 + (p[2] \div 32768), value \div Limb),
                      BitXor((p[2] % 32768) * 32, value % Limb)) : p \in {prev} },
        p \in {prev} } : TRUE

polymod_step(prev, value) ==
  CHOOSE r \in
    { ApplyGenerators(c, p[1] \div 32768, 1) :
        c \in { Int40(BitXor((p[1] % 32768) * 32 + (p[2] \div 32768), value \div Limb),
                      BitXor((p[2] % 32768) * 32, value % Limb)) : p \in {prev} },
        p \in {prev} } : TRUE

\* polymod_step over values[first..last]: the first half, then the rest
RECURSIVE PolymodRange(_, _, _, _)
PolymodRange(polymod, values, first, last) ==
  IF first > last THEN polymod
  ELSE IF first = last THEN polymod_step(polymod, values[first])
  ELSE CHOOSE r \in
         { PolymodRange(half, values, (first + last) \div 2 + 1, last) :
             half \in { PolymodRange(polymod, values, first, (first + last) \div 2) } } : TRUE

PolymodFold(polymod, values, i) ==
  CHOOSE r \in
    { PolymodRange(start, data, i, Len(data)) : start \in {polymod}, data \in {values} } : TRUE

\* (polymod >> (5 * (7 - i))) & 0x1f for i = 0..7
ChecksumSymbol(polymod, i) ==
  IF i < 4
  THEN (polymod[1] \div Pow2(5 * (3 - i))) % 32
  ELSE (polymod[2] \div Pow2(5 * (7 - i))) % 32

ChecksumBytes(polymod) ==
  CHOOSE r \in
    { PyBytes([k \in 1..CHECKSUM_LENGTH |-> ChecksumSymbol(p, k - 1)]) :
        p \in {polymod} } : TRUE

\* calculate_checksum without the step on 0 that follows the prefix
calculate_checksum_no_separator(prefix, data) ==
  CHOOSE r \in
    { ChecksumBytes(p4) :
        p4 \in { PolymodFold(p3, [k \in 1..CHECKSUM_LENGTH |-> 0], 1) :
          p3 \in { PolymodFold(p1, data, 1) :
            p1 \in { PolymodFold(Int40(0, 1),
                                 [k \in 1..Len(prefix) |-> prefix[k] % 32], 1) } } } } : TRUE

\* calculate_checksum stepping with ord(char), not ord(char) & 0x1f
calculate_checksum_whole_char(prefix, data) ==
  CHOOSE r \in
    { ChecksumBytes(p4) :
        p4 \in { PolymodFold(p3, [k \in 1..CHECKSUM_LENGTH |-> 0], 1) :
          p3 \in { PolymodFold(p2, data, 1) :
            p2 \in { polymod_step(p1, 0) :
              p1 \in { PolymodFold(Int40(0, 1),
                                   [k \in 1..Len(prefix) |-> prefix[k]], 1) } } } } } : TRUE

calculate_checksum(prefix, data) ==
  CHOOSE r \in
    { ChecksumBytes(p4) :
        p4 \in { PolymodFold(p3, [k \in 1..CHECKSUM_LENGTH |-> 0], 1) :
          p3 \in { PolymodFold(p2, data, 1) :
            p2 \in { polymod_step(p1, 0) :
              p1 \in { PolymodFold(Int40(0, 1),
                                   [k \in 1..Len(prefix) |-> prefix[k] % 32], 1) } } } } } : TRUE

\* verify_checksum comparing one checksum symbol too few
verify_checksum_short(prefix, data) ==
  LET calculated == calculate_checksum(prefix, DropLast(data, CHECKSUM_LENGTH))
  IN  DropLast(TakeLast(data, CHECKSUM_LENGTH), 1) = DropLast(calculated.items, 1)

verify_checksum(prefix, data) ==
  LET calculated == calculate_checksum(prefix, DropLast(data, CHECKSUM_LENGTH))
  IN  TakeLast(data, CHECKSUM_LENGTH) = calculated.items

\* verify_checksum letting the exception out
verify_checksum_call_no_except(prefix, obj) ==
  IF obj.kind = "NoneType"
  THEN Raise("TypeError", "object is not subscriptable")
  ELSE Ok(verify_checksum(prefix, obj.items))

\* verify_checksum as called with any object: what cannot be sliced raises
\* inside the try and the bare except answers False
verify_checksum_call(prefix, obj) ==
  IF obj.kind = "NoneType"
  THEN Ok(FALSE)
  ELSE Ok(verify_checksum(prefix, obj.items))

----------------------------------------------------------------------------
(* Text *)

\* str.lower() on ASCII text
LowerChar(c) == IF c >= 65 /\ c <= 90 THEN c + 32 ELSE c

Lower(s) == [k \in 1..Len(s) |-> LowerChar(s[k])]

UpperChar(c) == IF c >= 97 /\ c <= 122 THEN c - 32 ELSE c

\* str.find in the place of str.rfind: the first occurrence
RFind_first(s, c) ==
  IF \E k \in 1..Len(s) : s[k] = c
  THEN (CHOOSE k \in 1..Len(s) : s[k] = c /\ \A j \in 1..(k - 1) : s[j] # c) - 1
  ELSE -1

\* str.rfind(':'), 0-based, -1 when absent
RFind(s, c) ==
  IF \E k \in 1..Len(s) : s[k] = c
  THEN (CHOOSE k \in 1..Len(s) : s[k] = c /\ \A j \in (k + 1)..Len(s) : s[j] # c) - 1
  ELSE -1

\* CHARSET.index(char), 0-based
CharsetIndex(c) == (CHOOSE k \in 1..Len(CHARSET) : CHARSET[k] = c) - 1

InCharset(c) == \E k \in 1..Len(CHARSET) : CHARSET[k] = c

----------------------------------------------------------------------------
(* Base32 mapping *)

encode_to_base32(data) ==
  IF \E k \in 1..Len(data.items) : data.items[k] >= Len(CHARSET)
  THEN Raise("IndexError", "string index out of range")
  ELSE Ok([k \in 1..Len(data.items) |-> CHARSET[data.items[k] + 1]])

DecodeSymbols(t) ==
  IF \E k \in 1..Len(t) : ~InCharset(t[k])
  THEN Raise("ValueError", "Invalid character")
  ELSE Ok(PyBytes([k \in 1..Len(t) |-> CharsetIndex(t[k])]))

decode_from_base32(s) == DecodeSymbols(Lower(s))

----------------------------------------------------------------------------
(* AddressCodec *)

\* the version byte the encoder prepends (0x01 for ECDSA)
ENCODE_VERSION == 1

\* return f"{prefix}:{base32_string}"
EncodeJoin(prefix, base32_string) ==
  IF ~base32_string.ok THEN base32_string
  ELSE Ok(prefix \o <<Colon>> \o base32_string.val)

\* base32_string = encode_to_base32(combined), once combined was computed
EncodeCombined(prefix, combined) ==
  IF ~combined.ok THEN combined
  ELSE EncodeJoin(prefix, encode_to_base32(combined.val))

\* checksum = calculate_checksum(prefix, converted); combined = converted + checksum
EncodeConverted(prefix, converted) ==
  CHOOSE r \in
    { EncodeCombined(prefix, combined) :
        combined \in { PyConcat(converted, checksum) :
                         checksum \in { calculate_checksum(prefix, converted.items) } } } : TRUE

hoosat_bech32_encode(prefix, payload) ==
  CHOOSE r \in
    { EncodeConverted(prefix, converted) :
        converted \in { convert_bits(<<ENCODE_VERSION>> \o payload, 8, 5, TRUE) } } : TRUE

\* version = converted[0]; payload = bytes(converted[1:])
DecodeExtract(prefix, converted) ==
  IF Len(converted.items) = 0
  THEN Raise("IndexError", "list index out of range")
  ELSE Ok([prefix |-> prefix,
           payload |-> Tail(converted.items),
           version |-> Head(converted.items)])

\* from the base32 decoding on: checksum, strip, regroup 5->8 unpadded
DecodeData(prefix, decoded) ==
  IF ~decoded.ok THEN decoded
  ELSE IF ~verify_checksum(prefix, decoded.val.items)
  THEN Raise("ValueError", "Checksum failed")
  ELSE CHOOSE r \in
         { DecodeExtract(prefix, converted) :
             converted \in { convert_bits(DropLast(decoded.val.items, CHECKSUM_LENGTH),
                                          5, 8, FALSE) } } : TRUE

\* the colon check and the split into prefix and data_string
DecodeSplit(normalized, colon_index) ==
  IF colon_index < 1 \/ colon_index + CHECKSUM_LENGTH + 1 > Len(normalized)
  THEN Raise("ValueError", "Invalid index of colon")
  ELSE CHOOSE r \in
         { DecodeData(Slice(normalized, 1, colon_index), decoded) :
             decoded \in { decode_from_base32(Slice(normalized, colon_index + 2,
                                                    Len(normalized))) } } : TRUE

DecodeNormalized(normalized) ==
  CHOOSE r \in
    { DecodeSplit(text, RFind(text, Colon)) : text \in {normalized} } : TRUE

\* hoosat_bech32_decode working on the text as given, not on encoded.lower()
hoosat_bech32_decode_no_lower(encoded) ==
  IF Len(encoded) < CHECKSUM_LENGTH + 2
  THEN Raise("ValueError", "Invalid bech32 string length")
  ELSE DecodeNormalized(encoded)

hoosat_bech32_decode(encoded) ==
  IF Len(encoded) < CHECKSUM_LENGTH + 2
  THEN Raise("ValueError", "Invalid bech32 string length")
  ELSE DecodeNormalized(Lower(encoded))

\* validate_address without "if prefix != self.prefix"
ValidateDecoded_any_prefix(own_prefix, r) ==
  IF ~r.ok THEN FALSE
  ELSE IF Len(r.val.payload) = 0 THEN FALSE
  ELSE TRUE

\* the checks of validate_address on the outcome of the decode
ValidateDecoded(own_prefix, r) ==
  IF ~r.ok THEN FALSE
  ELSE IF r.val.prefix # own_prefix THEN FALSE
  ELSE IF Len(r.val.payload) = 0 THEN FALSE
  ELSE TRUE

\* HoosatAddressGenerator(network).validate_address(address)
validate_address(network, address) ==
  CHOOSE r \in
    { ValidateDecoded(NETWORK_PREFIXES[network], decoded) :
        decoded \in { hoosat_bech32_decode(address) } } : TRUE

\* '0123456789abcdef' as character codes
HexDigits == <<48, 49, 50, 51, 52, 53, 54, 55, 56, 57, 97, 98, 99, 100, 101, 102>>

\* bytes.hex()
Hex(b) ==
  [k \in 1..(2 * Len(b)) |->
     HexDigits[(IF k % 2 = 1 THEN b[(k + 1) \div 2] \div 16 ELSE b[k \div 2] % 16) + 1]]

KnownPrefix(p) == \E net \in DOMAIN NETWORK_PREFIXES : NETWORK_PREFIXES[net] = p

\* "Determine network from prefix": the first network of the table with it
NetworkOfPrefix(p) == CHOOSE net \in DOMAIN NETWORK_PREFIXES : NETWORK_PREFIXES[net] = p

\* the dictionary get_address_info makes of the outcome of the decode;
\* "except Exception as e" turns every failure into valid: False
InfoDecoded(address, r) ==
  IF ~r.ok THEN [valid |-> FALSE, error |-> r.msg]
  ELSE IF ~KnownPrefix(r.val.prefix) THEN [valid |-> FALSE, error |-> "Unknown prefix"]
  ELSE [valid |-> TRUE,
        address |-> address,
        network |-> NetworkOfPrefix(r.val.prefix),
        prefix |-> r.val.prefix,
        hash160 |-> Hex(r.val.payload),
        version |-> r.val.version]

\* HoosatAddressGenerator(network).get_address_info(address): self is not read
get_address_info(network, address) ==
  CHOOSE r \in
    { InfoDecoded(address, decoded) : decoded \in { hoosat_bech32_decode(address) } } : TRUE

----------------------------------------------------------------------------
(* The bech32 library that scripts/generate-address.py imports *)

PyNone == [kind |-> "NoneType"]

BECH32_GENERATOR == <<996825010, 642813549, 513874426, 1027748829, 705979059>>

RECURSIVE Bech32Apply(_, _, _)
Bech32Apply(chk, top, i) ==
  IF i > Len(BECH32_GENERATOR) THEN chk
  ELSE CHOOSE r \in
         { Bech32Apply(next, b, i + 1) :
             next \in { IF (top \div Pow2(i - 1)) % 2 = 1
                        THEN BitXor(chk, BECH32_GENERATOR[i]) ELSE chk },
             b \in {top} } : TRUE

\* top = chk >> 25; chk = (chk & 0x1ffffff) << 5 ^ value; then the generators
Bech32Step(chk, value) ==
  CHOOSE r \in
    { Bech32Apply(BitXor((c % Pow2(25)) * 32, value), c \div Pow2(25), 1) :
        c \in {chk} } : TRUE

\* the loop over values[first..last]: the first half, then the rest
RECURSIVE Bech32Range(_, _, _, _)
Bech32Range(chk, values, first, last) ==
  IF first > last THEN chk
  ELSE IF first = last THEN Bech32Step(chk, values[first])
  ELSE CHOOSE r \in
         { Bech32Range(half, values, (first + last) \div 2 + 1, last) :
             half \in { Bech32Range(chk, values, first, (first + last) \div 2) } } : TRUE

bech32_polymod_from(chk, values, i) ==
  CHOOSE r \in
    { Bech32Range(start, data, i, Len(data)) : start \in {chk}, data \in {values} } : TRUE

bech32_polymod(values) == bech32_polymod_from(1, values, 1)

bech32_hrp_expand(hrp) ==
  [k \in 1..Len(hrp) |-> hrp[k] \div 32] \o <<0>> \o [k \in 1..Len(hrp) |-> hrp[k] % 32]

bech32_create_checksum(hrp, data) ==
  CHOOSE r \in
    { [i \in 1..6 |-> (polymod \div Pow2(5 * (6 - i))) % 32] :
        polymod \in { BitXor(bech32_polymod(bech32_hrp_expand(hrp) \o data
                                              \o <<0, 0, 0, 0, 0, 0>>), 1) } } : TRUE

\* hrp + '1' + the data and checksum symbols through the same alphabet
bech32_encode(hrp, data) ==
  CHOOSE r \in
    { hrp \o <<49>> \o [k \in 1..Len(combined) |-> CHARSET[combined[k] + 1]] :
        combined \in { values \o bech32_create_checksum(hrp, values) :
                         values \in {data} } } : TRUE

\* bech32.convertbits: None for a value out of range and, without padding,
\* for leftover bits that are a whole input group or not zero
bech32_convertbits(data, frombits, tobits, pad) ==
  IF \E k \in 1..Len(data) : data[k] < 0 \/ data[k] >= Pow2(frombits) THEN PyNone
  ELSE CHOOSE r \in
         { IF pad THEN ConvertFinish(st, tobits, TRUE)
           ELSE IF st.bits >= frombits \/ st.acc # 0 THEN PyNone
           ELSE PyList(st.out) :
             st \in { ConvertLoop(data, 1, [acc |-> 0, bits |-> 0, out |-> <<>>],
                                  frombits, tobits) } } : TRUE

----------------------------------------------------------------------------
(* Key derivation: the curve library, blake3, and the two generate_address *)

\* hash160 = blake3_hash[:20]
PAYLOAD_LENGTH == 20

\* the order of the secp256k1 group, as 32 bytes
CURVE_ORDER ==
  << 255, 255, 255, 255, 255, 255, 255, 255, 255, 255, 255, 255, 255, 255, 255, 254,
     186, 174, 220, 230, 175, 72, 160, 59, 191, 210, 94, 140, 208, 54, 65, 65 >>

\* a < b for byte strings of one length read as big-endian numbers
BytesLess(a, b) ==
  \E k \in 1..Len(a) : a[k] < b[k] /\ \A j \in 1..(k - 1) : a[j] = b[j]

\* what secp256k1_ec_seckey_verify and SigningKey.from_string accept
ValidSecret(private_key) ==
  /\ Len(private_key) = Len(CURVE_ORDER)
  /\ \E k \in 1..Len(private_key) : private_key[k] # 0
  /\ BytesLess(private_key, CURVE_ORDER)

CurveLibraries == {"secp256k1", "ecdsa"}

\* the exception of the curve library on a secret it does not accept
CurveKeyError(library) ==
  IF library = "secp256k1" THEN Raise("Exception", "invalid private key")
  ELSE Raise("MalformedPointError", "Invalid value for secexp")

\* private_key_to_public_key without the validation of the library
private_key_to_public_key_unchecked(library, private_key, compressed) ==
  Ok([point_of |-> private_key, compressed |-> compressed])

\* the serialized point is not computed: it stands as the term it is
private_key_to_public_key(library, private_key, compressed) ==
  IF ~ValidSecret(private_key) THEN CurveKeyError(library)
  ELSE Ok([point_of |-> private_key, compressed |-> compressed])

\* standalone public_key_to_address, given blake3(public_key).digest()
public_key_to_address(network, blake3_hash) ==
  hoosat_bech32_encode(NETWORK_PREFIXES[network], Slice(blake3_hash, 1, PAYLOAD_LENGTH))

\* public_key_to_address of scripts/generate-address.py
script_public_key_to_address(network, blake3_hash) ==
  Ok(bech32_encode(NETWORK_PREFIXES[network],
                   bech32_convertbits(Slice(blake3_hash, 1, PAYLOAD_LENGTH), 8, 5, TRUE).items))

----------------------------------------------------------------------------
(* hashlib.sha256: SHA-256 on byte sequences.  A 32-bit word is the pair
   <<high, low>> of its 16-bit halves. *)

Half == Pow2(16)

\* a ^ b on bytes
XorByte == [a \in 0..255 |-> [b \in 0..255 |-> BitXorSlow(a, b)]]

Xor16(a, b) == XorByte[a \div 256][b \div 256] * 256 + XorByte[a % 256][b % 256]

\* a & b, from a + b = (a ^ b) + 2 * (a & b)
And16(a, b) == (a + b - Xor16(a, b)) \div 2

Xor32(x, y) == <<Xor16(x[1], y[1]), Xor16(x[2], y[2])>>

And32(x, y) == <<And16(x[1], y[1]), And16(x[2], y[2])>>

\* addition modulo 2^32
Add32(x, y) ==
  LET low == x[2] + y[2]
  IN  <<(x[1] + y[1] + low \div Half) % Half, low % Half>>

\* rotation to the right by n < 16 bits
RotRLow(x, n) ==
  IF n = 0 THEN x
  ELSE LET p == Pow2(n)
           q == Pow2(16 - n)
       IN  <<x[1] \div p + (x[2] % p) * q, x[2] \div p + (x[1] % p) * q>>

RotR32(x, n) == IF n >= 16 THEN RotRLow(<<x[2], x[1]>>, n - 16) ELSE RotRLow(x, n)

\* shift to the right by n < 16 bits
ShR32(x, n) ==
  LET p == Pow2(n)
      q == Pow2(16 - n)
  IN  <<x[1] \div p, x[2] \div p + (x[1] % p) * q>>

\* the round constants and the initial hash value of SHA-256
SHA256_K ==
  << <<17034, 12184>>, <<28983, 17553>>, <<46528, 64463>>, <<59829, 56229>>,
     <<14678, 49755>>, <<23025, 4593>>, <<37439, 33444>>, <<43804, 24277>>,
     <<55303, 43672>>, <<4739, 23297>>, <<9265, 34238>>, <<21772, 32195>>,
     <<29374, 23924>>, <<32990, 45566>>, <<39900, 1703>>, <<49563, 61812>>,
     <<58523, 27073>>, <<61374, 18310>>, <<4033, 40390>>, <<9228, 41420>>,
     <<11753, 11375>>, <<19060, 33962>>, <<23728, 43484>>, <<30457, 35034>>,
     <<38974, 20818>>, <<43057, 50797>>, <<45059, 10184>>, <<48985, 32711>>,
     <<50912, 3059>>, <<54695, 37191>>, <<1738, 25425>>, <<5161, 10599>>,
     <<10167, 2693>>, <<11803, 8504>>, <<19756, 28156>>, <<21304, 3347>>,
     <<25866, 29524>>, <<30314, 2747>>, <<33218, 51502>>, <<37490, 11397>>,
     <<41663, 59553>>, <<43034, 26187>>, <<49739, 35696>>, <<51052, 20899>>,
     <<53650, 59417>>, <<54937, 1572>>, <<62478, 13701>>, <<4202, 41072>>,
     <<6564, 49430>>, <<7735, 27656>>, <<10056, 30540>>, <<13488, 48309>>,
     <<14620, 3251>>, <<20184, 43594>>, <<23452, 51791>>, <<26670, 28659>>,
     <<29839, 33518>>, <<30885, 25455>>, <<33992, 30740>>, <<36039, 520>>,
     <<37054, 65530>>, <<42064, 27883>>, <<48889, 41975>>, <<50801, 30962>> >>

SHA256_H0 ==
  << <<27145, 58983>>, <<47975, 44677>>, <<15470, 62322>>, <<42319, 62778>>,
     <<20750, 21119>>, <<39685, 26764>>, <<8067, 55723>>, <<23520, 52505>> >>

SmallSigma0(x) == Xor32(Xor32(RotR32(x, 7), RotR32(x, 18)), ShR32(x, 3))

SmallSigma1(x) == Xor32(Xor32(RotR32(x, 17), RotR32(x, 19)), ShR32(x, 10))

BigSigma0(x) == Xor32(Xor32(RotR32(x, 2), RotR32(x, 13)), RotR32(x, 22))

BigSigma1(x) == Xor32(Xor32(RotR32(x, 6), RotR32(x, 11)), RotR32(x, 25))

\* (e & f) ^ (~e & g)
Ch(e, f, g) == Xor32(g, And32(e, Xor32(f, g)))

\* (a & b) ^ (a & c) ^ (b & c)
Maj(a, b, c) == Xor32(And32(a, b), And32(c, Xor32(a, b)))

\* the schedule w with its next word
Sha256Extend(w) ==
  Append(w, Add32(Add32(SmallSigma1(w[Len(w) - 1]), w[Len(w) - 6]),
                  Add32(SmallSigma0(w[Len(w) - 14]), w[Len(w) - 15])))

\* the schedule w with its next n words: the first half of them, then the rest
RECURSIVE Sha256ExtendBy(_, _)
Sha256ExtendBy(w, n) ==
  IF n = 0 THEN w
  ELSE IF n = 1 THEN Sha256Extend(w)
  ELSE CHOOSE r \in
         { Sha256ExtendBy(half, n - n \div 2) :
             half \in { Sha256ExtendBy(w, n \div 2) } } : TRUE

\* the message schedule: 16 words extended to 64
Sha256Schedule(w) == Sha256ExtendBy(w, 64 - Len(w))

\* one round on the working variables s = <<a, b, c, d, e, f, g, h>>
Sha256Round(s, k, w) ==
  CHOOSE r \in
    { <<Add32(t[1], t[2]), s[1], s[2], s[3], Add32(s[4], t[1]), s[5], s[6], s[7]>> :
        t \in { <<Add32(Add32(Add32(s[8], BigSigma1(s[5])), Ch(s[5], s[6], s[7])),
                        Add32(k, w)),
                  Add32(BigSigma0(s[1]), Maj(s[1], s[2], s[3]))>> } } : TRUE

\* the rounds first..last: the first half of them, then the rest
RECURSIVE Sha256RoundsTo(_, _, _, _)
Sha256RoundsTo(s, w, first, last) ==
  IF first = last THEN Sha256Round(s, SHA256_K[first], w[first])
  ELSE CHOOSE r \in
         { Sha256RoundsTo(half, w, (first + last) \div 2 + 1, last) :
             half \in { Sha256RoundsTo(s, w, first, (first + last) \div 2) } } : TRUE

\* the rounds t..64
Sha256Rounds(s, w, t) == Sha256RoundsTo(s, w, t, 64)

Sha256Compress(h, block) ==
  CHOOSE r \in
    { [i \in 1..8 |-> Add32(h[i], s[i])] :
        s \in { Sha256Rounds(h, w, 1) : w \in { Sha256Schedule(block) } } } : TRUE

\* the message, 0x80, zeros up to 56 modulo 64, and the bit length in 8 bytes
Sha256Pad(message) ==
  LET bits == 8 * Len(message)
  IN  message \o <<128>> \o [i \in 1..((55 - Len(message)) % 64) |-> 0]
        \o <<0, 0, 0, 0, bits \div 16777216, (bits \div 65536) % 256,
             (bits \div 256) % 256, bits % 256>>

Sha256Words(padded) ==
  [j \in 1..(Len(padded) \div 4) |->
     <<padded[4 * j - 3] * 256 + padded[4 * j - 2], padded[4 * j - 1] * 256 + padded[4 * j]>>]

RECURSIVE Sha256Blocks(_, _, _)
Sha256Blocks(h, words, b) ==
  IF 16 * b > Len(words) THEN h
  ELSE CHOOSE r \in
         { Sha256Blocks(nxt, words, b + 1) :
             nxt \in { Sha256Compress(h, block) :
                        block \in { SubSeq(words, 16 * b - 15, 16 * b) } } } : TRUE

Sha256Bytes(h) ==
  [i \in 1..32 |->
     LET half == h[(i + 3) \div 4][((i - 1) % 4) \div 2 + 1]
     IN  IF i % 2 = 1 THEN half \div 256 ELSE half % 256]

\* hashlib.sha256(message).digest()
sha256(message) ==
  CHOOSE r \in
    { Sha256Bytes(h) :
        h \in { Sha256Blocks(SHA256_H0, words, 1) :
                  words \in { Sha256Words(padded) :
                              padded \in { Sha256Pad(m) : m \in {message} } } } } : TRUE

----------------------------------------------------------------------------
(* base58: b58encode and b58decode on the Bitcoin alphabet *)

\* '123456789ABCDEFGHJKLMNPQRSTUVWXYZabcdefghijkmnopqrstuvwxyz' as character codes
BASE58_ALPHABET ==
  << 49, 50, 51, 52, 53, 54, 55, 56, 57, 65, 66, 67, 68, 69, 70, 71,
     72, 74, 75, 76, 77, 78, 80, 81, 82, 83, 84, 85, 86, 87, 88, 89,
     90, 97, 98, 99, 100, 101, 102, 103, 104, 105, 106, 107, 109, 110, 111, 112,
     113, 114, 115, 116, 117, 118, 119, 120, 121, 122 >>

RECURSIVE LeadingCount(_, _)
LeadingCount(s, x) ==
  IF Len(s) = 0 \/ s[1] # x THEN 0
  ELSE CHOOSE r \in { 1 + LeadingCount(rest, x) : rest \in { Tail(s) } } : TRUE

\* one step of the long division of the digits ds (base from_base) by
\* to_base: st = <<remainder, quotient digits without leading zeros>>
DivideDigit(ds, i, st, from_base, to_base) ==
  IF i > Len(ds) THEN st
  ELSE LET cur == st[1] * from_base + ds[i]
       IN  <<cur % to_base,
             IF Len(st[2]) = 0 /\ cur \div to_base = 0
             THEN st[2] ELSE Append(st[2], cur \div to_base)>>

\* the long division over ds[first..last]: the first half, then the rest
RECURSIVE DivideRange(_, _, _, _, _, _)
DivideRange(ds, first, last, st, from_base, to_base) ==
  IF first >= last THEN DivideDigit(ds, first, st, from_base, to_base)
  ELSE CHOOSE r \in
         { DivideRange(ds, (first + last) \div 2 + 1, last, half, from_base, to_base) :
             half \in { DivideRange(ds, first, (first + last) \div 2, st,
                                     from_base, to_base) } } : TRUE

\* the long division of the digits from the i-th on
LongDivide(ds, i, st, from_base, to_base) ==
  DivideRange(ds, i, Len(ds), st, from_base, to_base)

\* one digit more of the result: c = <<digits left to divide, digits found>>
NextDigit(c, from_base, to_base) ==
  IF Len(c[1]) = 0 THEN c
  ELSE CHOOSE r \in
         { <<st[2], <<st[1]>> \o c[2]>> :
             st \in { LongDivide(c[1], 1, <<0, <<>>>>, from_base, to_base) } } : TRUE

\* n digits more, or all that are left: half of them, then the rest
RECURSIVE NextDigits(_, _, _, _)
NextDigits(c, n, from_base, to_base) ==
  IF n = 0 \/ Len(c[1]) = 0 THEN c
  ELSE IF n = 1 THEN NextDigit(c, from_base, to_base)
  ELSE CHOOSE r \in
         { NextDigits(half, n - n \div 2, from_base, to_base) :
             half \in { NextDigits(c, n \div 2, from_base, to_base) } } : TRUE

\* the digits in to_base of the number with digits ds in from_base, most
\* significant first, none for zero; a digit of a base up to 256 makes at
\* most two digits of a base from 58 on
ToBase(ds, out, from_base, to_base) ==
  NextDigits(<<ds, out>>, 2 * Len(ds), from_base, to_base)[2]

StripLeading(s, x) == Slice(s, LeadingCount(s, x) + 1, Len(s))

\* base58.b58encode(v): a '1' for each leading zero byte, then the number
B58EncodeBytes(v) ==
  CHOOSE r \in
    { [k \in 1..LeadingCount(v, 0) |-> BASE58_ALPHABET[1]]
        \o [k \in 1..Len(digits) |-> BASE58_ALPHABET[digits[k] + 1]] :
        digits \in { ToBase(ds, <<>>, 256, 58) : ds \in { StripLeading(v, 0) } } } : TRUE

b58encode(v) == CHOOSE r \in { B58EncodeBytes(b) : b \in {v} } : TRUE

InBase58(c) == \E k \in 1..Len(BASE58_ALPHABET) : BASE58_ALPHABET[k] = c

Base58Index(c) == (CHOOSE k \in 1..Len(BASE58_ALPHABET) : BASE58_ALPHABET[k] = c) - 1

\* base58.b58decode(v) of a text without white space at its end: a zero byte
\* for each leading '1', then the bytes of the number
B58DecodeText(v) ==
  IF \E k \in 1..Len(v) : ~InBase58(v[k])
  THEN Raise("ValueError", "Invalid character")
  ELSE CHOOSE r \in
         { Ok(PyBytes([k \in 1..LeadingCount(v, BASE58_ALPHABET[1]) |-> 0] \o number)) :
             number \in { ToBase(ds, <<>>, 58, 256) :
                            ds \in { [k \in 1..Len(t) |-> Base58Index(t[k])] :
                                       t \in { StripLeading(v, BASE58_ALPHABET[1]) } } } } : TRUE

b58decode(v) == CHOOSE r \in { B58DecodeText(t) : t \in {v} } : TRUE

----------------------------------------------------------------------------
(* Wallet import format *)

\* b'\x80' if self.network == 'mainnet' else b'\xef'
WifVersionByte(network) == IF network = "mainnet" THEN 128 ELSE 239

\* hashlib.sha256(hashlib.sha256(b).digest()).digest()[:4]
DoubleShaChecksum(b) ==
  CHOOSE r \in { SubSeq(sha256(first), 1, 4) : first \in { sha256(b) } } : TRUE

WifExtended(network, private_key, compressed) ==
  <<WifVersionByte(network)>> \o private_key \o (IF compressed THEN <<1>> ELSE <<>>)

WifEncodeExtended(extended) ==
  CHOOSE r \in
    { b58encode(extended \o checksum) : checksum \in { DoubleShaChecksum(extended) } } : TRUE

private_key_to_wif(network, private_key, compressed) ==
  CHOOSE r \in
    { WifEncodeExtended(extended) :
        extended \in { WifExtended(network, private_key, compressed) } } : TRUE

\* the length branch taking payload[1:-1] for either length
WifStrip_always_marker(payload) ==
  IF Len(payload) = 33 \/ Len(payload) = 34
  THEN Ok(PyBytes(Slice(payload, 2, Len(payload) - 1)))
  ELSE Raise("ValueError", "Invalid WIF length")

\* "Remove version byte and compression flag"
WifStrip(payload) ==
  IF Len(payload) = 33 THEN Ok(PyBytes(Slice(payload, 2, Len(payload))))
  ELSE IF Len(payload) = 34 THEN Ok(PyBytes(Slice(payload, 2, Len(payload) - 1)))
  ELSE Raise("ValueError", "Invalid WIF length")

\* the decoded bytes accepted without comparing the checksum
WifChecked_no_compare(decoded) ==
  WifStrip(DropLast(decoded, 4))

\* "Check checksum": the last 4 bytes against the double hash of the rest
WifChecked(decoded) ==
  IF TakeLast(decoded, 4) # DoubleShaChecksum(DropLast(decoded, 4))
  THEN Raise("ValueError", "Invalid WIF checksum")
  ELSE WifStrip(DropLast(decoded, 4))

WifDecoded(decoded) == IF ~decoded.ok THEN decoded ELSE WifChecked(decoded.val.items)

\* the method of a generator of any network: self is not read
wif_to_private_key(network, wif) ==
  CHOOSE r \in { WifDecoded(decoded) : decoded \in { b58decode(wif) } } : TRUE

----------------------------------------------------------------------------
(* generate_address of the two scripts *)

\* the tuple returned once the address is there
GenerateReturn(network, private_key, compressed, address) ==
  IF ~address.ok THEN address
  ELSE Ok([address |-> address.val,
           wif |-> private_key_to_wif(network, private_key, compressed),
           private_key |-> private_key])

GenerateFrom(public_key, network, private_key, compressed, address) ==
  IF ~public_key.ok THEN public_key
  ELSE GenerateReturn(network, private_key, compressed, address)

\* standalone generate_address, for the private key drawn, the curve library
\* that is installed and the blake3 digest of the public key
generate_address(network, compressed, private_key, library, blake3_hash) ==
  GenerateFrom(private_key_to_public_key(library, private_key, compressed),
               network, private_key, compressed,
               public_key_to_address(network, blake3_hash))

\* generate_address of scripts/generate-address.py
script_generate_address(network, compressed, private_key, library, blake3_hash) ==
  GenerateFrom(private_key_to_public_key(library, private_key, compressed),
               network, private_key, compressed,
               script_public_key_to_address(network, blake3_hash))

----------------------------------------------------------------------------
(* Codec calls run step by step by threads.  A call keeps its arguments    *)
(* and local variables in its own frame th; CHARSET and GENERATOR are the  *)
(* module-level objects module.charset and module.generator that it reads. *)

\* polymod_step reading GENERATOR from the module
RECURSIVE ApplyGeneratorsOf(_, _, _, _)
ApplyGeneratorsOf(generator, c, b, i) ==
  IF i > Len(generator) THEN c
  ELSE CHOOSE r \in
         { ApplyGeneratorsOf(generator, next, top, i + 1) :
             next \in { IF (b \div Pow2(i - 1)) % 2 = 1
                        THEN Int40(BitXor(c[1], generator[i][1]),
                                   BitXor(c[2], generator[i][2]))
                        ELSE c },
             top \in {b} } : TRUE

polymod_step_reading(generator, prev, value) ==
  CHOOSE r \in
    { ApplyGeneratorsOf(generator, c, p[1] \div 32768, 1) :
        c \in { Int40(BitXor((p[1] % 32768) * 32 + (p[2] \div 32768), value \div Limb),
                      BitXor((p[2] % 32768) * 32, value % Limb)) : p \in {prev} },
        p \in {prev} } : TRUE

\* the values calculate_checksum steps with, one loop after the other
ChecksumValues(prefix, data) ==
  [k \in 1..Len(prefix) |-> prefix[k] % 32] \o <<0>> \o data
    \o [k \in 1..CHECKSUM_LENGTH |-> 0]

RECURSIVE PolymodRangeReading(_, _, _, _, _)
PolymodRangeReading(generator, polymod, values, first, last) ==
  IF first > last THEN polymod
  ELSE IF first = last THEN polymod_step_reading(generator, polymod, values[first])
  ELSE CHOOSE r \in
         { PolymodRangeReading(generator, half, values, (first + last) \div 2 + 1, last) :
             half \in { PolymodRangeReading(generator, polymod, values, first,
                                             (first + last) \div 2) } } : TRUE

PolymodFoldReading(generator, polymod, values, i) ==
  CHOOSE r \in
    { PolymodRangeReading(generator, start, data, i, Len(data)) :
        start \in {polymod}, data \in {values} } : TRUE

\* verify_checksum(prefix, decoded) as decode calls it, in one piece
verify_checksum_reading(generator, prefix, data) ==
  TakeLast(data, CHECKSUM_LENGTH) =
    ChecksumBytes(PolymodFoldReading(generator, Int40(0, 1),
      ChecksumValues(prefix, DropLast(data, CHECKSUM_LENGTH)), 1)).items

\* char not in CHARSET / CHARSET.index(char), reading CHARSET from the module
InCharsetOf(charset, c) == \E k \in 1..Len(charset) : charset[k] = c

CharsetIndexOf(charset, c) == (CHOOSE k \in 1..Len(charset) : charset[k] = c) - 1

Pending == [ok |-> FALSE, exc |-> "none", msg |-> "not returned"]

\* the frame of a call that was just made
Frame(call, args, loc) ==
  [call |-> call, args |-> args, pc |-> 0, loc |-> loc, done |-> FALSE, ret |-> Pending]

Return(th, outcome) == [th EXCEPT !.done = TRUE, !.ret = outcome]

Goto(th, loc) == [th EXCEPT !.pc = @ + 1, !.loc = loc]

\* convert_bits: one value of "for value in data", then the padding
StepConvertBits(th) ==
  IF th.pc < Len(th.args.data)
  THEN Goto(th, ConvertValue(th.loc, th.args.data[th.pc + 1],
                             th.args.from_bits, th.args.to_bits))
  ELSE Return(th, Ok(ConvertFinish(th.loc, th.args.to_bits, th.args.pad)))

\* calculate_checksum: one polymod_step, then the checksum bytes
StepCalculateChecksum(th, generator) ==
  IF th.pc < Len(ChecksumValues(th.args.prefix, th.args.data))
  THEN Goto(th, polymod_step_reading(generator, th.loc,
                  ChecksumValues(th.args.prefix, th.args.data)[th.pc + 1]))
  ELSE Return(th, Ok(ChecksumBytes(th.loc)))

\* verify_checksum: calculate_checksum on data[:-8], then the comparison
StepVerifyChecksum(th, generator) ==
  IF th.pc < Len(ChecksumValues(th.args.prefix, DropLast(th.args.data, CHECKSUM_LENGTH)))
  THEN Goto(th, polymod_step_reading(generator, th.loc,
                  ChecksumValues(th.args.prefix,
                                 DropLast(th.args.data, CHECKSUM_LENGTH))[th.pc + 1]))
  ELSE Return(th, Ok(TakeLast(th.args.data, CHECKSUM_LENGTH) = ChecksumBytes(th.loc).items))

\* encode_to_base32: CHARSET[b] for one b of data
StepEncodeToBase32(th, charset) ==
  IF th.pc < Len(th.args.data)
  THEN IF th.args.data[th.pc + 1] >= Len(charset)
       THEN Return(th, Raise("IndexError", "string index out of range"))
       ELSE Goto(th, Append(th.loc, charset[th.args.data[th.pc + 1] + 1]))
  ELSE Return(th, Ok(th.loc))

\* decode_from_base32: one char of s.lower()
StepDecodeFromBase32(th, charset) ==
  IF th.pc < Len(th.args.s)
  THEN IF ~InCharsetOf(charset, LowerChar(th.args.s[th.pc + 1]))
       THEN Return(th, Raise("ValueError", "Invalid character"))
       ELSE Goto(th, Append(th.loc, CharsetIndexOf(charset, LowerChar(th.args.s[th.pc + 1]))))
  ELSE Return(th, Ok(PyBytes(th.loc)))

\* hoosat_bech32_encode: regroup, checksum, "converted + checksum"
StepEncode(th, generator) ==
  IF th.pc = 0
  THEN Goto(th, [converted |-> convert_bits(<<ENCODE_VERSION>> \o th.args.payload, 8, 5, TRUE)])
  ELSE IF th.pc = 1
  THEN Goto(th, [converted |-> th.loc.converted,
                 checksum |-> ChecksumBytes(PolymodFoldReading(generator, Int40(0, 1),
                                ChecksumValues(th.args.prefix, th.loc.converted.items), 1))])
  ELSE Return(th, EncodeCombined(th.args.prefix, PyConcat(th.loc.converted, th.loc.checksum)))

\* hoosat_bech32_decode: length, lower, split, base32, checksum, regroup
StepDecode(th, charset, generator) ==
  IF th.pc = 0
  THEN IF Len(th.args.encoded) < CHECKSUM_LENGTH + 2
       THEN Return(th, Raise("ValueError", "Invalid bech32 string length"))
       ELSE Goto(th, [normalized |-> Lower(th.args.encoded)])
  ELSE IF th.pc = 1
  THEN LET colon_index == RFind(th.loc.normalized, Colon)
       IN  IF colon_index < 1 \/ colon_index + CHECKSUM_LENGTH + 1 > Len(th.loc.normalized)
           THEN Return(th, Raise("ValueError", "Invalid index of colon"))
           ELSE Goto(th, [prefix |-> Slice(th.loc.normalized, 1, colon_index),
                          data_string |-> Slice(th.loc.normalized, colon_index + 2,
                                                Len(th.loc.normalized))])
  ELSE IF th.pc = 2
  THEN IF \E k \in 1..Len(th.loc.data_string) : ~InCharsetOf(charset, th.loc.data_string[k])
       THEN Return(th, Raise("ValueError", "Invalid character"))
       ELSE Goto(th, [prefix |-> th.loc.prefix,
                      decoded |-> [k \in 1..Len(th.loc.data_string) |->
                                     CharsetIndexOf(charset, th.loc.data_string[k])]])
  ELSE IF th.pc = 3
  THEN IF ~verify_checksum_reading(generator, th.loc.prefix, th.loc.decoded)
       THEN Return(th, Raise("ValueError", "Checksum failed"))
       ELSE Goto(th, th.loc)
  ELSE Return(th, DecodeExtract(th.loc.prefix,
                    convert_bits(DropLast(th.loc.decoded, CHECKSUM_LENGTH), 5, 8, FALSE)))

\* private_key_to_wif: extended, checksum, base58
StepPrivateKeyToWif(th) ==
  IF th.pc = 0
  THEN Goto(th, WifExtended(th.args.network, th.args.private_key, th.args.compressed))
  ELSE IF th.pc = 1
  THEN Goto(th, th.loc \o DoubleShaChecksum(th.loc))
  ELSE Return(th, Ok(b58encode(th.loc)))

\* wif_to_private_key: base58, then checksum and strip
StepWifToPrivateKey(th) ==
  IF th.pc = 0
  THEN Goto(th, b58decode(th.args.wif))
  ELSE Return(th, WifDecoded(th.loc))

\* the next step of the call in frame th
StepOf(th, module) ==
  CASE th.call = "convert_bits" -> StepConvertBits(th)
    [] th.call = "calculate_checksum" -> StepCalculateChecksum(th, module.generator)
    [] th.call = "verify_checksum" -> StepVerifyChecksum(th, module.generator)
    [] th.call = "encode_to_base32" -> StepEncodeToBase32(th, module.charset)
    [] th.call = "decode_from_base32" -> StepDecodeFromBase32(th, module.charset)
    [] th.call = "hoosat_bech32_encode" -> StepEncode(th, module.generator)
    [] th.call = "hoosat_bech32_decode" -> StepDecode(th, module.charset, module.generator)
    [] th.call = "private_key_to_wif" -> StepPrivateKeyToWif(th)
    [] th.call = "wif_to_private_key" -> StepWifToPrivateKey(th)

\* a codec in which polymod_step keeps its work in GENERATOR[0]
ModuleAfter_scratch_generator(th, module) ==
  IF th.call \in {"calculate_checksum", "verify_checksum"} /\ ~th.done
  THEN [module EXCEPT !.generator[1] = Int40(BitXor(@[1], th.loc[1]), BitXor(@[2], th.loc[2]))]
  ELSE module

\* the module-level objects after a step of the call in frame th: no function
\* of the codec assigns to CHARSET or GENERATOR or changes GENERATOR in place
ModuleAfter(th, module) == module

\* what the call returns when it runs alone
RunAlone(th) ==
  CASE th.call = "convert_bits" ->
         Ok(convert_bits(th.args.data, th.args.from_bits, th.args.to_bits, th.args.pad))
    [] th.call = "calculate_checksum" -> Ok(calculate_checksum(th.args.prefix, th.args.data))
    [] th.call = "verify_checksum" -> Ok(verify_checksum(th.args.prefix, th.args.data))
    [] th.call = "encode_to_base32" -> encode_to_base32(PyBytes(th.args.data))
    [] th.call = "decode_from_base32" -> decode_from_base32(th.args.s)
    [] th.call = "hoosat_bech32_encode" -> hoosat_bech32_encode(th.args.prefix, th.args.payload)
    [] th.call = "hoosat_bech32_decode" -> hoosat_bech32_decode(th.args.encoded)
    [] th.call = "private_key_to_wif" ->
         Ok(private_key_to_wif(th.args.network, th.args.private_key, th.args.compressed))
    [] th.call = "wif_to_private_key" -> wif_to_private_key(th.args.network, th.args.wif)

----------------------------------------------------------------------------
(* build-transaction.py: HoosatTransactionBuilder *)

\* int(text) of a text of decimal digits
RECURSIVE ParseInt(_)
ParseInt(text) ==
  IF Len(text) = 0 THEN 0
  ELSE 10 * ParseInt(SubSeq(text, 1, Len(text) - 1)) + (text[Len(text)] - 48)

\* str(n) of an integer: decimal digits, '-' in front of a negative one
RECURSIVE DigitsOf(_)
DigitsOf(n) == IF n < 10 THEN <<48 + n>> ELSE Append(DigitsOf(n \div 10), 48 + (n % 10))

IntToText(n) == IF n < 0 THEN <<45>> \o DigitsOf(0 - n) ELSE DigitsOf(n)

\* int(u['utxoEntry']['amount'])
UtxoAmount(u) == ParseInt(u.amount)

\* sorted(..., reverse=True): the list in descending order of the key, equal
\* keys in the order they had (u goes behind every element not below it)
RECURSIVE InsertDescending(_, _, _)
InsertDescending(sorted, u, i) ==
  IF i > Len(sorted) THEN Append(sorted, u)
  ELSE IF UtxoAmount(sorted[i]) < UtxoAmount(u)
       THEN SubSeq(sorted, 1, i - 1) \o <<u>> \o SubSeq(sorted, i, Len(sorted))
       ELSE InsertDescending(sorted, u, i + 1)

RECURSIVE SortedByAmount(_, _, _)
SortedByAmount(utxos, i, sorted) ==
  IF i > Len(utxos) THEN sorted
  ELSE SortedByAmount(utxos, i + 1, InsertDescending(sorted, utxos[i], 1))

\* the for loop of select_utxos: append, add, break when the amount is reached
RECURSIVE SelectLoop(_, _, _, _, _)
SelectLoop(sorted_utxos, i, selected, total, amount_needed) ==
  IF i > Len(sorted_utxos) THEN [selected |-> selected, total |-> total]
  ELSE LET sel == Append(selected, sorted_utxos[i])
           tot == total + UtxoAmount(sorted_utxos[i])
       IN  IF tot >= amount_needed
           THEN [selected |-> sel, total |-> tot]
           ELSE SelectLoop(sorted_utxos, i + 1, sel, tot, amount_needed)

SelectFrom(sorted_utxos, amount_needed) ==
  LET r == SelectLoop(sorted_utxos, 1, <<>>, 0, amount_needed)
  IN  IF r.total < amount_needed
      THEN Raise("Exception", "Insufficient funds")
      ELSE Ok(r)

\* select_utxos taking the UTXOs in the order they come in
select_utxos_unsorted(utxos, amount_needed) == SelectFrom(utxos, amount_needed)

select_utxos(utxos, amount_needed) ==
  SelectFrom(SortedByAmount(utxos, 1, <<>>), amount_needed)

\* 'hoosat:' and 'hoosattest:'
BuilderPrefix(network) == NETWORK_PREFIXES[network] \o <<Colon>>

\* address.startswith(self.config['prefix'])
builder_validate_address(network, address) ==
  /\ Len(address) >= Len(BuilderPrefix(network))
  /\ SubSeq(address, 1, Len(BuilderPrefix(network))) = BuilderPrefix(network)

\* if change > 1000
DUST_THRESHOLD == 1000

\* estimated_fee = int(fee_rate) * 200
FEE_BYTES == 200

\* the outputs and the returned figures, from the selection on
BuildFrom(amount_sompi, estimated_fee, selection) ==
  IF ~selection.ok THEN selection
  ELSE LET total_input == selection.val.total
           change == total_input - amount_sompi - estimated_fee
       IN  Ok([inputs |-> [k \in 1..Len(selection.val.selected) |->
                             selection.val.selected[k].outpoint],
               outputs |-> <<IntToText(amount_sompi)>>
                             \o (IF change > DUST_THRESHOLD
                                 THEN <<IntToText(change)>> ELSE <<>>),
               fee |-> estimated_fee,
               total_input |-> total_input,
               change |-> IF change > DUST_THRESHOLD THEN change ELSE 0])

\* build_transaction; utxos is what get_utxos returned, amount_sompi is
\* int(amount_htn * 100_000_000), fee_rate the text given or estimated
build_transaction(network, sender_address, recipient_address, utxos, amount_sompi, fee_rate) ==
  IF ~builder_validate_address(network, sender_address)
  THEN Raise("Exception", "Invalid sender address")
  ELSE IF ~builder_validate_address(network, recipient_address)
  THEN Raise("Exception", "Invalid recipient address")
  ELSE IF Len(utxos) = 0
  THEN Raise("Exception", "No UTXOs available for this address")
  ELSE BuildFrom(amount_sompi, ParseInt(fee_rate) * FEE_BYTES,
                 select_utxos(utxos, amount_sompi + ParseInt(fee_rate) * FEE_BYTES))

----------------------------------------------------------------------------
(* agent-crypto.py: SessionManager and AgentCrypto.  A str is the record   *)
(* PyStr(text), a float PyFloat(n), None is PyNone.                        *)

PyStr(text) == [kind |-> "str", val |-> text]

PyFloat(n) == [kind |-> "float", val |-> n]

\* the truth value of an object that is None, a str or a float
Truthy(v) ==
  /\ v.kind # "NoneType"
  /\ v.kind = "str" => v.val # ""
  /\ v.kind = "float" => v.val # 0

\* os.time(): the module os has no attribute time
os_time(clock) == Raise("AttributeError", "module 'os' has no attribute 'time'")

\* SessionManager(timeout_seconds)
NewSession(timeout_seconds) ==
  [timeout |-> timeout_seconds, password |-> PyNone, last_access |-> PyNone]

\* a method of the session: the session and the environment variable
\* HOOSAT_AGENT_PASSWORD after it, and what it returns or raises
SessionResult(session, environ, out) ==
  [session |-> session, environ |-> environ, out |-> out]

\* self._last_access = os.time() and what follows it
Touch(session, environ_after, clock, returned) ==
  IF ~os_time(clock).ok
  THEN SessionResult(session, environ_after.before, os_time(clock))
  ELSE SessionResult([session EXCEPT !.last_access = os_time(clock).val],
                     environ_after.after, Ok(returned))

set_password(session, environ, clock, password) ==
  Touch([session EXCEPT !.password = password],
        [before |-> environ, after |-> password], clock, PyNone)

is_session_valid(session, clock) ==
  IF ~Truthy(session.last_access) THEN Ok(FALSE)
  ELSE IF ~os_time(clock).ok THEN os_time(clock)
  ELSE Ok(os_time(clock).val.val - session.last_access.val < session.timeout)

\* get_password from "Check environment" on
GetFromEnvironment(session, environ, clock) ==
  IF Truthy(environ)
  THEN Touch([session EXCEPT !.password = environ],
             [before |-> environ, after |-> environ], clock, environ)
  ELSE SessionResult(session, environ, Ok(PyNone))

get_password(session, environ, clock) ==
  IF ~Truthy(session.password) THEN GetFromEnvironment(session, environ, clock)
  ELSE CHOOSE r \in
         { IF ~valid.ok THEN SessionResult(session, environ, valid)
           ELSE IF valid.val
           THEN Touch(session, [before |-> environ, after |-> environ], clock,
                      session.password)
           ELSE GetFromEnvironment(session, environ, clock) :
             valid \in { is_session_valid(session, clock) } } : TRUE

session_clear(session, environ) ==
  SessionResult([session EXCEPT !.password = PyNone, !.last_access = PyNone],
                PyNone, Ok(PyNone))

is_active(session, environ, clock) ==
  CHOOSE a \in
    { IF r.out.ok THEN [r EXCEPT !.out = Ok(r.out.val # PyNone)] ELSE r :
        r \in { get_password(session, environ, clock) } } : TRUE

EmptyDict == [k \in {} |-> k]

\* the items of a dict, one after the other
RECURSIVE DictItems(_)
DictItems(d) ==
  IF DOMAIN d = {} THEN <<>>
  ELSE LET k == CHOOSE x \in DOMAIN d : TRUE
       IN  <<[key |-> k, value |-> d[k]]>> \o DictItems([x \in DOMAIN d \ {k} |-> d[x]])

\* the dict of a sequence of items: a later item replaces an earlier one
DictOfItems(items) ==
  [k \in {items[i].key : i \in 1..Len(items)} |->
     items[CHOOSE i \in 1..Len(items) :
             /\ items[i].key = k
             /\ \A j \in (i + 1)..Len(items) : items[j].key # k].value]

\* json.dumps / json.loads of {'wallets': {...}, 'version': ...}
json_dumps(store) == [wallets |-> DictItems(store.wallets), version |-> store.version]

json_loads(text) == [wallets |-> DictOfItems(text.wallets), version |-> text.version]

\* AgentCrypto(password).encrypt(data): a Fernet token under the key derived
\* from the password with the fixed salt
encrypt(password, store) == [kind |-> "token", key |-> password.val, plain |-> json_dumps(store)]

\* AgentCrypto(password).decrypt(token): Fernet raises InvalidToken under
\* another key
decrypt(password, token) ==
  IF token.key # password.val THEN Raise("InvalidToken", "")
  ELSE Ok(json_loads(token.plain))

verify_password(password, token) == decrypt(password, token).ok

----------------------------------------------------------------------------
(* agent-wallet.py: AgentWalletManager.  w is the manager with its files   *)
(* and the environment variable: session, environ, wallets_cache, config,  *)
(* wallets_file, address_book, transaction_log.                            *)

LOCKED == "Wallet system locked. Please unlock first."

STORE_VERSION == "1.0.0"

\* what a method leaves behind and what it returns or raises
Done(w, out) == [w |-> w, out |-> out]

\* the manager after a method of its session
AfterSession(w, r) == [w EXCEPT !.session = r.session, !.environ = r.environ]

default_config(auto_approve) ==
  [autoApprove |-> [enabled |-> auto_approve, wallets |-> EmptyDict],
   features |-> [dryRun |-> TRUE, confirmTransactions |-> TRUE, logTransactions |-> TRUE]]

\* AgentWalletManager(wallet_dir) on a directory without a wallets file
NewManager(timeout_seconds, environ, auto_approve) ==
  [session |-> NewSession(timeout_seconds), environ |-> environ,
   wallets_cache |-> EmptyDict, config |-> default_config(auto_approve),
   wallets_file |-> PyNone, address_book |-> EmptyDict, transaction_log |-> <<>>]

initialize(w, clock, password) ==
  CHOOSE d \in
    { Done(AfterSession(written, r), Ok(r.out.ok)) :
        written \in { [w EXCEPT !.wallets_file =
                         encrypt(password, [wallets |-> EmptyDict, version |-> STORE_VERSION]),
                       !.address_book = EmptyDict] },
        r \in { set_password(w.session, w.environ, clock, password) } } : TRUE

unlock(w, clock, password) ==
  IF w.wallets_file = PyNone THEN Done(w, Ok(FALSE))
  ELSE IF ~verify_password(password, w.wallets_file) THEN Done(w, Ok(FALSE))
  ELSE CHOOSE d \in
         { Done(AfterSession(w, r), Ok(r.out.ok)) :
             r \in { set_password(w.session, w.environ, clock, password) } } : TRUE

\* json.loads(crypto.decrypt(encrypted)) and the cache, once the crypto
\* instance c.out is there
LoadWith(c) ==
  IF ~c.out.ok THEN c
  ELSE IF ~Truthy(c.out.val) THEN Done(c.w, Raise("Exception", LOCKED))
  ELSE IF c.w.wallets_file = PyNone THEN Done(c.w, Raise("FileNotFoundError", ""))
  ELSE CHOOSE d \in
         { IF ~data.ok THEN Done(c.w, data)
           ELSE Done([c.w EXCEPT !.wallets_cache = data.val.wallets], Ok(data.val.wallets)) :
             data \in { decrypt(c.out.val, c.w.wallets_file) } } : TRUE

\* the crypto instance is the password it was made with
get_crypto(w, clock) ==
  CHOOSE d \in
    { Done(AfterSession(w, r), r.out) :
        r \in { get_password(w.session, w.environ, clock) } } : TRUE

load_wallets(w, clock) ==
  IF DOMAIN w.wallets_cache # {} THEN Done(w, Ok(w.wallets_cache))
  ELSE CHOOSE d \in { LoadWith(c) : c \in { get_crypto(w, clock) } } : TRUE

save_wallets(w, clock, wallets) ==
  CHOOSE d \in
    { IF ~c.out.ok THEN c
      ELSE IF ~Truthy(c.out.val) THEN Done(c.w, Raise("Exception", LOCKED))
      ELSE Done([c.w EXCEPT !.wallets_file =
                    encrypt(c.out.val, [wallets |-> wallets, version |-> STORE_VERSION]),
                  !.wallets_cache = wallets],
                Ok(PyNone)) :
        c \in { get_crypto(w, clock) } } : TRUE

\* Wallet(name, address, private_key, network); the address is text made
\* from the head of the private key
NewWallet(name, private_key, network) ==
  [name |-> name, address |-> PyStr(<<"hoosat:", private_key>>),
   private_key |-> private_key, network |-> network]

\* wallets[name] = wallet: wallets is the cache itself once it is loaded
Put(w, wallets) == [w EXCEPT !.wallets_cache = wallets]

\* import_wallet from "if name in wallets" on: l is what _load_wallets gave
AddWallet(l, clock, name, wallet) ==
  IF ~l.out.ok THEN l
  ELSE IF name \in DOMAIN l.out.val THEN Done(l.w, Raise("Exception", "Wallet already exists"))
  ELSE CHOOSE d \in
         { IF ~saved.out.ok THEN saved ELSE Done(saved.w, Ok(wallet)) :
             saved \in { save_wallets(Put(l.w, added), clock, added) :
                           added \in { [k \in DOMAIN l.out.val \cup {name} |->
                                          IF k = name THEN wallet ELSE l.out.val[k]] } } } : TRUE

import_wallet(w, clock, name, private_key, network) ==
  CHOOSE d \in
    { IF ~a.out.ok THEN Done(AfterSession(w, a), a.out)
      ELSE IF ~a.out.val THEN Done(AfterSession(w, a), Raise("Exception", LOCKED))
      ELSE CHOOSE e \in
             { AddWallet(l, clock, name, NewWallet(name, private_key, network)) :
                 l \in { load_wallets(AfterSession(w, a), clock) } } : TRUE :
        a \in { is_active(w.session, w.environ, clock) } } : TRUE

\* private_key is what secrets.token_hex(32) gives this time
create_wallet(w, clock, name, network, private_key) ==
  import_wallet(w, clock, name, private_key, network)

get_wallet(w, clock, name) ==
  CHOOSE d \in
    { IF ~l.out.ok THEN l
      ELSE Done(l.w, Ok(IF name \in DOMAIN l.out.val THEN l.out.val[name] ELSE PyNone)) :
        l \in { load_wallets(w, clock) } } : TRUE

list_wallets(w, clock) ==
  CHOOSE d \in
    { IF ~l.out.ok THEN l ELSE Done(l.w, Ok(DOMAIN l.out.val)) :
        l \in { load_wallets(w, clock) } } : TRUE

\* delete_wallet from "if name not in wallets" on
RemoveWallet(l, clock, name) ==
  IF ~l.out.ok THEN l
  ELSE IF name \notin DOMAIN l.out.val THEN Done(l.w, Ok(FALSE))
  ELSE CHOOSE d \in
         { IF ~saved.out.ok THEN saved ELSE Done(saved.w, Ok(TRUE)) :
             saved \in { save_wallets(Put(l.w, left), clock, left) :
                           left \in { [k \in DOMAIN l.out.val \ {name} |-> l.out.val[k]] } } } : TRUE

delete_wallet(w, clock, name) ==
  CHOOSE d \in { RemoveWallet(l, clock, name) : l \in { load_wallets(w, clock) } } : TRUE

export_wallet(w, clock, name) == get_wallet(w, clock, name)

\* text is a str
add_address(w, label, text) ==
  Done([w EXCEPT !.address_book =
          [k \in DOMAIN w.address_book \cup {label} |->
             IF k = label THEN text ELSE w.address_book[k]]],
       Ok(PyNone))

get_address(w, label) ==
  IF label \in DOMAIN w.address_book THEN w.address_book[label] ELSE PyNone

\* an identifier that is neither a label nor a wallet name is an address
\* when it starts with a network prefix
resolve_address(w, clock, identifier, is_address) ==
  IF Truthy(get_address(w, identifier)) THEN Done(w, Ok(get_address(w, identifier)))
  ELSE CHOOSE d \in
         { IF ~g.out.ok THEN g
           ELSE IF g.out.val # PyNone THEN Done(g.w, Ok(g.out.val.address))
           ELSE Done(g.w, Ok(IF is_address THEN PyStr(identifier) ELSE PyNone)) :
             g \in { get_wallet(w, clock, identifier) } } : TRUE

set_auto_approve(w, wallet_name, max_amount, enabled) ==
  Done([w EXCEPT !.config.autoApprove.wallets =
          [k \in DOMAIN @ \cup {wallet_name} |->
             IF k = wallet_name THEN [enabled |-> enabled, maxAmount |-> max_amount]
             ELSE @[k]]],
       Ok(PyNone))

\* amount and maxAmount are decimal text
should_auto_approve(w, wallet_name, amount) ==
  /\ w.config.autoApprove.enabled
  /\ wallet_name \in DOMAIN w.config.autoApprove.wallets
  /\ w.config.autoApprove.wallets[wallet_name].enabled
  /\ ParseInt(amount) <= ParseInt(w.config.autoApprove.wallets[wallet_name].maxAmount)

set_dry_run(w, enabled) == Done([w EXCEPT !.config.features.dryRun = enabled], Ok(PyNone))

is_dry_run(w) == w.config.features.dryRun

set_confirm_transactions(w, enabled) ==
  Done([w EXCEPT !.config.features.confirmTransactions = enabled], Ok(PyNone))

should_confirm(w) == w.config.features.confirmTransactions

log_transaction(w, wallet_name, tx_id, to, amount) ==
  IF ~w.config.features.logTransactions THEN w
  ELSE [w EXCEPT !.transaction_log =
          Append(@, [wallet |-> wallet_name, tx_id |-> tx_id, recipient |-> to, amount |-> amount])]

lock(w) ==
  Done([AfterSession(w, session_clear(w.session, w.environ)) EXCEPT !.wallets_cache = EmptyDict],
       Ok(PyNone))

----------------------------------------------------------------------------
(* agent-transact.py: TransactionExecutor.  api is what the network answers *)
(* this time: balance and utxos are outcomes, fee_rate a number.            *)

PyBool(b) == [kind |-> "bool", val |-> b]

TransactionResult(success, tx_id, error, dry_run) ==
  [success |-> success, tx_id |-> tx_id, error |-> error, dry_run |-> dry_run]

Failed(error) == TransactionResult(FALSE, PyNone, error, FALSE)

DRY_RUN_TX_ID == "DRY-RUN-TX-ID"

\* get_balance and get_utxos: the wallet first, then the answer of the
\* network; every exception becomes the failure (False, str(e))
WalletQuery(w, clock, wallet_name, answer) ==
  CHOOSE d \in
    { IF ~g.out.ok THEN Done(g.w, Raise("failed", g.out.msg))
      ELSE IF g.out.val = PyNone THEN Done(g.w, Raise("failed", "Wallet not found"))
      ELSE Done(g.w, answer) :
        g \in { get_wallet(w, clock, wallet_name) } } : TRUE

get_balance(w, clock, wallet_name, api) == WalletQuery(w, clock, wallet_name, api.balance)

get_utxos(w, clock, wallet_name, api) == WalletQuery(w, clock, wallet_name, api.utxos)

\* transfer from "Check if should confirm" on
ConfirmAndSend(w, from_wallet, to, amount_sompi, confirm) ==
  IF /\ (IF confirm # PyNone THEN confirm.val ELSE should_confirm(w))
     /\ ~should_auto_approve(w, from_wallet, IntToText(amount_sompi))
  THEN Done(w, TransactionResult(FALSE, PyNone, "Transaction requires confirmation", TRUE))
  ELSE IF is_dry_run(w)
  THEN Done(w, TransactionResult(TRUE, DRY_RUN_TX_ID, PyNone, TRUE))
  ELSE Done(log_transaction(w, from_wallet, DRY_RUN_TX_ID, to, IntToText(amount_sompi)),
            TransactionResult(TRUE, DRY_RUN_TX_ID, PyNone, TRUE))

\* transfer from "Get UTXOs" on: balance is what get_balance gave
TransferFunded(balance, clock, from_wallet, to, amount_sompi, confirm, api) ==
  IF ~balance.out.ok THEN Done(balance.w, Failed("Could not get balance"))
  ELSE IF ParseInt(balance.out.val) < amount_sompi
  THEN Done(balance.w, Failed("Insufficient balance"))
  ELSE CHOOSE d \in
         { IF ~unspent.out.ok THEN Done(unspent.w, Failed("Could not get UTXOs"))
           ELSE IF unspent.out.val = 0 THEN Done(unspent.w, Failed("No UTXOs available"))
           ELSE ConfirmAndSend(unspent.w, from_wallet, to, amount_sompi, confirm) :
             unspent \in { get_utxos(balance.w, clock, from_wallet, api) } } : TRUE

\* transfer from "Check balance" on: sender is what get_wallet gave
TransferFrom(sender, clock, from_wallet, to, amount_sompi, confirm, api) ==
  IF ~sender.out.ok THEN Done(sender.w, Failed(sender.out.msg))
  ELSE IF sender.out.val = PyNone THEN Done(sender.w, Failed("Wallet not found"))
  ELSE CHOOSE d \in
         { TransferFunded(balance, clock, from_wallet, to, amount_sompi, confirm, api) :
             balance \in { get_balance(sender.w, clock, from_wallet, api) } } : TRUE

\* transfer from "Get sender wallet" on: to is what resolve_address gave
TransferTo(to, clock, from_wallet, amount_sompi, confirm, api) ==
  IF ~to.out.ok THEN Done(to.w, Failed(to.out.msg))
  ELSE IF to.out.val = PyNone THEN Done(to.w, Failed("Could not resolve address"))
  ELSE CHOOSE d \in
         { TransferFrom(sender, clock, from_wallet, to.out.val, amount_sompi, confirm, api) :
             sender \in { get_wallet(to.w, clock, from_wallet) } } : TRUE

transfer(w, clock, from_wallet, to_address, is_address, amount_sompi, confirm, api) ==
  CHOOSE d \in
    { TransferTo(to, clock, from_wallet, amount_sompi, confirm, api) :
        to \in { resolve_address(w, clock, to_address, is_address) } } : TRUE

----------------------------------------------------------------------------
(* Bounds and inputs *)

\* payload contents are drawn from MaxSeed + 1 byte patterns
MaxSeed == 1

\* payload lengths besides PAYLOAD_LENGTH that a supplied text may carry
MaxOddLength == 2

\* a supplied text may keep only its first 0..MaxShort data symbols
MaxShort == 1

\* nonzero values tried in the padding bits of the last data symbol
MaxPadValue == 3

\* case variants upper-case every k-th character, k in 1..MaxStride
MaxStride == 2

\* byte sequences handed to the regrouper have up to MaxBytes bytes
MaxBytes == 5

\* symbol sequences handed to the checksum have up to MaxData symbols
MaxData == 4

Networks == {"mainnet", "testnet"}

Versions == {0, 1}

ByteChoices == {0, 1, 170, 255}

SymbolChoices == {0, 1, 21, 31}

Pattern(n, seed) == [k \in 1..n |-> (151 * seed + (37 + 64 * seed) * k) % 256]

Payloads ==
  { Pattern(n, seed) : n \in (0..MaxOddLength) \cup {PAYLOAD_LENGTH}, seed \in 0..MaxSeed }

RECURSIVE SeqsUpTo(_, _)
SeqsUpTo(S, n) ==
  IF n = 0 THEN {<<>>}
  ELSE LET shorter == SeqsUpTo(S, n - 1)
       IN  shorter \cup { Append(q, x) : q \in {r \in shorter : Len(r) = n - 1}, x \in S }

\* The text a conforming encoder writes for a prefix and a symbol sequence:
\* the symbols followed by their checksum, mapped through the alphabet.
AddressText(p, symbols) ==
  CHOOSE r \in
    { p \o <<Colon>> \o encode_to_base32(PyList(data \o checksum.items)).val :
        checksum \in { calculate_checksum(p, data) : data \in {symbols} },
        data \in {symbols} } : TRUE

Canonical(h, v) == convert_bits(<<v>> \o h, 8, 5, TRUE).items

\* number of padding bits in the last symbol of an 8->5 regrouping of n bytes
PadBits(n) == (5 - ((8 * n) % 5)) % 5

\* Canonical symbols, the same with nonzero padding bits, and short cuts of them
CraftedFrom(c, padbits) ==
  {c}
  \cup { [c EXCEPT ![Len(c)] = @ + j] : j \in {i \in 1..MaxPadValue : i < Pow2(padbits)} }
  \cup { SubSeq(c, 1, n) : n \in {i \in 0..MaxShort : i <= Len(c)} }

Crafted(h, v) == CraftedFrom(Canonical(h, v), PadBits(Len(h) + 1))

----------------------------------------------------------------------------
(* State *)

VARIABLES
  network,  \* self.network of the HoosatAddressGenerator
  prefix,   \* prefix argument of the checksum / of the supplied text
  payload,  \* byte sequence argument
  version,  \* version byte asked for
  data,     \* 5-bit symbol sequence argument
  address,  \* the text handed to decode and validate_address
  origin,   \* the text address was derived from
  edit,     \* how: "none", "case", "subst"
  op,       \* the last call made
  result,   \* and its outcome
  secret,     \* private_key argument
  compressed, \* compressed argument
  wif,        \* the text handed to wif_to_private_key
  encoder,    \* self.network of the generator that wrote wif
  digest,     \* blake3_hash of the public key
  arg,        \* the object handed to verify_checksum
  polymod,    \* the accumulator of the checksum engine
  steps,      \* how many polymod_step calls produced it
  utxos,      \* the UTXOs of the sender, as the API lists them
  amount,     \* the amount asked for, in sompi
  fee_rate,   \* the fee rate, a text
  recipient,  \* the address paid to
  threads,    \* the frame of the call each thread is in
  module,     \* the module-level objects CHARSET and GENERATOR
  manager,    \* the AgentWalletManager, its files and HOOSAT_AGENT_PASSWORD
  clock,      \* the time of the system clock, in seconds
  lastcall    \* the last call on the manager: its arguments, what it returned
              \* or raised, and the manager before it

keyvars == <<secret, compressed, wif, encoder, digest>>

\* the state of everything that is not the address codec
buildvars == <<utxos, amount, fee_rate, recipient>>

threadvars == <<threads, module>>

\* SessionManager(timeout_seconds=3600)
SESSION_TIMEOUT == 3600

NoCall == [call |-> "none", args |-> <<>>, out |-> Ok(PyNone), before |-> <<>>]

walletvars == <<manager, clock, lastcall>>

agentvars == <<polymod, steps, buildvars, threadvars, walletvars>>

codecvars == <<network, prefix, payload, version, data, address, origin, edit, op, result,
               keyvars, arg>>

vars == <<codecvars, agentvars>>

NoText == <<>>

NoArg == [kind |-> "NoneType"]

\* no key material and no checksum argument in play
NoKey ==
  /\ secret = <<>>
  /\ compressed = FALSE
  /\ wif = NoText
  /\ encoder = network
  /\ digest = <<>>
  /\ arg = NoArg

\* and nothing else of the system
NoAgent ==
  /\ polymod = Int40(0, 1)
  /\ steps = 0
  /\ utxos = <<>>
  /\ amount = 0
  /\ fee_rate = NoText
  /\ recipient = NoText
  /\ threads = <<>>
  /\ module = [charset |-> CHARSET, generator |-> GENERATOR]
  /\ manager = NewManager(SESSION_TIMEOUT, PyNone, FALSE)
  /\ clock = 0
  /\ lastcall = NoCall

NoResult == [ok |-> FALSE, exc |-> "none", msg |-> "nothing called"]

----------------------------------------------------------------------------
(* Address codec: encode, supplied texts, decode, validate *)

Init ==
  /\ network \in Networks
  /\ prefix = NETWORK_PREFIXES[network]
  /\ payload \in Payloads
  /\ version \in Versions
  /\ data = <<>>
  /\ address = NoText
  /\ origin = NoText
  /\ edit = "none"
  /\ op = "init"
  /\ result = NoResult
  /\ NoKey
  /\ NoAgent

\* generator.public_key_to_address: hoosat_bech32_encode(self.prefix, hash160)
Encode ==
  /\ op = "init"
  /\ result' = hoosat_bech32_encode(NETWORK_PREFIXES[network], payload)
  /\ op' = "encode"
  /\ address' = IF result'.ok THEN result'.val ELSE address
  /\ origin' = address'
  /\ UNCHANGED <<network, prefix, payload, version, data, edit>>
  /\ UNCHANGED <<keyvars, arg>>
  /\ UNCHANGED agentvars

SupplyText(p, symbols) ==
  /\ op = "init"
  /\ prefix' = p
  /\ data' = symbols
  /\ address' = AddressText(p, symbols)
  /\ origin' = address'
  /\ op' = "supply"
  /\ UNCHANGED <<network, payload, version, edit, result>>
  /\ UNCHANGED <<keyvars, arg>>
  /\ UNCHANGED agentvars

\* An address text is handed in (--validate), of either network
Supply ==
  \E n \in Networks : \E symbols \in Crafted(payload, version) :
    SupplyText(NETWORK_PREFIXES[n], symbols)

\* ... in another spelling of upper and lower case
Recase ==
  /\ op = "supply"
  /\ edit = "none"
  /\ \E stride \in 1..MaxStride : \E offset \in 0..(stride - 1) :
       address' = [k \in 1..Len(address) |->
                     IF k % stride = offset THEN UpperChar(address[k]) ELSE address[k]]
  /\ edit' = "case"
  /\ UNCHANGED <<network, prefix, payload, version, data, origin, op, result>>
  /\ UNCHANGED <<keyvars, arg>>
  /\ UNCHANGED agentvars

Decode ==
  /\ op = "supply"
  /\ result' = hoosat_bech32_decode(address)
  /\ op' = "decode"
  /\ UNCHANGED <<network, prefix, payload, version, data, address, origin, edit>>
  /\ UNCHANGED <<keyvars, arg>>
  /\ UNCHANGED agentvars

Validate ==
  /\ op = "supply"
  /\ result' = Ok(validate_address(network, address))
  /\ op' = "validate"
  /\ UNCHANGED <<network, prefix, payload, version, data, address, origin, edit>>
  /\ UNCHANGED <<keyvars, arg>>
  /\ UNCHANGED agentvars

Next == Encode \/ Supply \/ Recase \/ Decode \/ Validate

Spec == Init /\ [][Next]_vars

----------------------------------------------------------------------------
(* Properties of the address codec, under Spec *)

Expected(p, h, v) == Ok([prefix |-> p, payload |-> h, version |-> v])

\* the leftover bits of a 5->8 regrouping that form no complete byte
LeftoverSet(st) == st.bits > 0 /\ st.acc # 0

NonzeroLeftover(symbols) ==
  LeftoverSet(ConvertLoop(symbols, 1, [acc |-> 0, bits |-> 0, out |-> <<>>], 5, 8))

ValidationErrors ==
  { "Invalid bech32 string length", "Invalid index of colon", "Invalid character",
    "Checksum failed", "Invalid padding" }

\* C1: decoding the string that encoding (p, h, v) produced returns (p, h, v),
\* for each network prefix p, payload h and version v in {0, 1}.
C1_RoundTrip ==
  (op = "encode" /\ Len(payload) = PAYLOAD_LENGTH) =>
    /\ result.ok
    /\ hoosat_bech32_decode(result.val)
         = Expected(NETWORK_PREFIXES[network], payload, version)

\* C2: encoding a network prefix and a 20-byte payload returns an address
\* string and never ends in an error.
C2_EncodeNeverFails ==
  (op = "encode" /\ Len(payload) = PAYLOAD_LENGTH) => result.ok

\* C3: decode returns a complete (prefix, payload, version) tuple or fails with
\* one of the validation errors, also on a text whose data portion is only
\* the checksum plus at most one symbol.
C3_DecodeTotalTyped ==
  op = "decode" =>
    \/ /\ result.ok
       /\ DOMAIN result.val = {"prefix", "payload", "version"}
    \/ /\ ~result.ok
       /\ result.exc = "ValueError"
       /\ result.msg \in ValidationErrors

\* C5: decode fails with a validation error (BadPadding) on a checksum-valid
\* text whose last data symbol carries nonzero padding bits.
C5_NonzeroPaddingRejected ==
  (op = "decode" /\ Len(payload) = PAYLOAD_LENGTH /\ NonzeroLeftover(data)) =>
    (~result.ok /\ result.exc = "ValueError")

\* C6: two different lowercase address strings that both decode never yield
\* the same (prefix, payload, version).
C6_UniqueDecode ==
  (op = "decode" /\ Len(payload) = PAYLOAD_LENGTH /\ result.ok) =>
    \A symbols \in Crafted(payload, version) :
      LET other == AddressText(prefix, symbols)
      IN  (other # Lower(address) /\ hoosat_bech32_decode(other).ok)
            => hoosat_bech32_decode(other) # result

\* C7: the payload of every successful decode, and of every address that
\* validate_address accepts, is exactly 20 bytes long.
C7_PayloadTwentyBytes ==
  /\ (op = "decode" /\ result.ok) => Len(result.val.payload) = PAYLOAD_LENGTH
  /\ (op = "validate" /\ result.val)
       => Len(hoosat_bech32_decode(address).val.payload) = PAYLOAD_LENGTH

\* C9: every case variant of a valid lowercase address decodes, and to the
\* same (prefix, payload, version) as the lowercase text, the prefix being
\* returned in lowercase.
C9_CaseInvariance ==
  (op = "decode" /\ hoosat_bech32_decode(origin).ok) =>
    /\ result = hoosat_bech32_decode(origin)
    /\ result.val.prefix = prefix

IsMixedCase(s) ==
  /\ \E k \in 1..Len(s) : s[k] # LowerChar(s[k])
  /\ \E k \in 1..Len(s) : s[k] # UpperChar(s[k])

C9_Witness ==
  /\ op = "decode"
  /\ edit = "case"
  /\ IsMixedCase(address)
  /\ origin = Lower(origin)
  /\ result = Expected(prefix, payload, version)
  /\ Len(payload) = PAYLOAD_LENGTH

----------------------------------------------------------------------------
(* Single-character substitutions in a valid address *)

InitFlip ==
  /\ network \in Networks
  /\ prefix = NETWORK_PREFIXES[network]
  /\ payload \in { Pattern(PAYLOAD_LENGTH, seed) : seed \in 0..MaxSeed }
  /\ version = ENCODE_VERSION
  /\ data = <<>>
  /\ address = NoText
  /\ origin = NoText
  /\ edit = "none"
  /\ op = "init"
  /\ result = NoResult
  /\ NoKey
  /\ NoAgent

SupplyCanonical == SupplyText(prefix, Canonical(payload, version))

\* one character of the data portion replaced by another alphabet character
Substitute ==
  /\ op = "supply"
  /\ edit = "none"
  /\ \E pos \in (Len(prefix) + 2)..Len(address) :
       \E k \in 1..Len(CHARSET) :
         /\ CHARSET[k] # address[pos]
         /\ address' = [address EXCEPT ![pos] = CHARSET[k]]
  /\ edit' = "subst"
  /\ UNCHANGED <<network, prefix, payload, version, data, origin, op, result>>
  /\ UNCHANGED <<keyvars, arg>>
  /\ UNCHANGED agentvars

NextFlip == SupplyCanonical \/ Substitute \/ Decode

SpecFlip == InitFlip /\ [][NextFlip]_vars

\* C4: replacing any one character of the data portion of a valid address by
\* another alphabet character makes decode fail with the checksum error.
C4_ChecksumSensitivity ==
  (op = "decode" /\ edit = "subst" /\ hoosat_bech32_decode(origin).ok) =>
    result = Raise("ValueError", "Checksum failed")

C4_Witness ==
  /\ op = "decode"
  /\ edit = "subst"
  /\ hoosat_bech32_decode(origin) = Expected(prefix, payload, version)
  /\ address[Len(prefix) + 2] # origin[Len(prefix) + 2]
  /\ result = Raise("ValueError", "Checksum failed")

----------------------------------------------------------------------------
(* The regrouper on byte sequences *)

InitBits ==
  /\ network = "mainnet"
  /\ prefix = NETWORK_PREFIXES[network]
  /\ payload \in SeqsUpTo(ByteChoices, MaxBytes)
  /\ version = ENCODE_VERSION
  /\ data = <<>>
  /\ address = NoText
  /\ origin = NoText
  /\ edit = "none"
  /\ op = "init"
  /\ result = NoResult
  /\ NoKey
  /\ NoAgent

RegroupTo5 ==
  /\ op = "init"
  /\ result' = Ok(convert_bits(payload, 8, 5, TRUE))
  /\ data' = result'.val.items
  /\ op' = "to5"
  /\ UNCHANGED <<network, prefix, payload, version, address, origin, edit>>
  /\ UNCHANGED <<keyvars, arg>>
  /\ UNCHANGED agentvars

RegroupTo8 ==
  /\ op = "to5"
  /\ result' = Ok(convert_bits(data, 5, 8, FALSE))
  /\ op' = "to8"
  /\ UNCHANGED <<network, prefix, payload, version, data, address, origin, edit>>
  /\ UNCHANGED <<keyvars, arg>>
  /\ UNCHANGED agentvars

\* convert_bits called on the sequence as 5-bit symbols, whatever its values
RegroupSymbols ==
  /\ op = "init"
  /\ \E pad \in BOOLEAN : result' = Ok(convert_bits(payload, 5, 8, pad))
  /\ op' = "symbols"
  /\ UNCHANGED <<network, prefix, payload, version, data, address, origin, edit>>
  /\ UNCHANGED <<keyvars, arg>>
  /\ UNCHANGED agentvars

NextBits == RegroupTo5 \/ RegroupTo8 \/ RegroupSymbols

SpecBits == InitBits /\ [][NextBits]_vars

\* C8: regrouping a byte sequence 8->5 with padding and the result 5->8
\* without padding returns the byte sequence itself, the empty one included.
C8_RegroupInverse ==
  op = "to8" => result.val.items = payload

C8_Witness ==
  /\ op = "to8"
  /\ Len(payload) = 3
  /\ Len(data) = 5
  /\ data[5] # 0
  /\ result.val.items = payload

\* C13: convert_bits fails with the symbol error whenever an input symbol
\* does not fit in from_bits bits, and never returns a result for such input.
C13_SymbolRange ==
  (op = "symbols" /\ \E k \in 1..Len(payload) : payload[k] >= Pow2(5)) => ~result.ok

----------------------------------------------------------------------------
(* The checksum on a prefix and a symbol sequence *)

InitChecksum ==
  /\ network \in Networks
  /\ prefix = NETWORK_PREFIXES[network]
  /\ payload = <<>>
  /\ version = ENCODE_VERSION
  /\ data \in SeqsUpTo(SymbolChoices, MaxData)
  /\ address = NoText
  /\ origin = NoText
  /\ edit = "none"
  /\ op = "init"
  /\ result = NoResult
  /\ NoKey
  /\ NoAgent

Checksum ==
  /\ op = "init"
  /\ result' = Ok(calculate_checksum(prefix, data))
  /\ op' = "checksum"
  /\ UNCHANGED <<network, prefix, payload, version, data, address, origin, edit>>
  /\ UNCHANGED <<keyvars, arg>>
  /\ UNCHANGED agentvars

\* the arguments of Verify made from a prefix and data symbols: the data with
\* its checksum, prefixes of that shorter than a checksum, one symbol changed,
\* a symbol that is no 5-bit value, and no sequence at all
VerifyArgs(p, symbols) ==
  LET full == symbols \o calculate_checksum(p, symbols).items
  IN  {[how |-> "valid", obj |-> PyBytes(full)], [how |-> "valid", obj |-> PyList(full)]}
      \cup {[how |-> "short", obj |-> PyBytes(SubSeq(full, 1, n))] :
               n \in {0, Len(symbols), CHECKSUM_LENGTH - 1}}
      \cup {[how |-> "corrupt", obj |-> PyBytes([full EXCEPT ![k] = (@ + 1) % 32])] :
               k \in {1, Len(full)}}
      \cup {[how |-> "oversize", obj |-> PyBytes([full EXCEPT ![Len(full)] = 255])]}
      \cup {[how |-> "absent", obj |-> NoArg]}

Verify ==
  /\ op = "init"
  /\ \E a \in VerifyArgs(prefix, data) :
       /\ arg' = a.obj
       /\ edit' = a.how
       /\ result' = verify_checksum_call(prefix, a.obj)
  /\ op' = "verify"
  /\ UNCHANGED <<network, prefix, payload, version, data, address, origin>>
  /\ UNCHANGED keyvars
  /\ UNCHANGED agentvars

NextChecksum == Checksum \/ Verify

SpecChecksum == InitChecksum /\ [][NextChecksum]_vars

\* The computation C10 describes, on an accumulator of 40 bits, most
\* significant first; the generators are written by their hexadecimal digits.
RefGeneratorDigits ==
  << <<9, 8, 15, 2, 11, 12, 8, 14, 6, 1>>,
     <<7, 9, 11, 7, 6, 13, 9, 9, 14, 2>>,
     <<15, 3, 3, 14, 5, 15, 11, 3, 12, 4>>,
     <<10, 14, 2, 14, 10, 11, 14, 2, 10, 8>>,
     <<1, 14, 4, 15, 4, 3, 14, 4, 7, 0>> >>

\* bit k of n (k = 1 the most significant) in a field of w bits
RefBit(n, w, k) == (n \div Pow2(w - k)) % 2

RefGenerator(i) ==
  [k \in 1..40 |-> RefBit(RefGeneratorDigits[i][((k - 1) \div 4) + 1], 4, ((k - 1) % 4) + 1)]

RefXor(a, b) == [k \in 1..40 |-> (a[k] + b[k]) % 2]

RECURSIVE RefApply(_, _, _)
RefApply(p, top, i) ==
  IF i > 4 THEN p
  ELSE RefApply(IF top[5 - i] = 1 THEN RefXor(p, RefGenerator(i + 1)) ELSE p, top, i + 1)

RefStep(p, v) ==
  RefApply(SubSeq(p, 6, 40) \o [k \in 1..5 |-> RefBit(v, 5, k)], SubSeq(p, 1, 5), 0)

RECURSIVE RefRange(_, _, _, _)
RefRange(p, values, first, last) ==
  IF first > last THEN p
  ELSE IF first = last THEN RefStep(p, values[first])
  ELSE CHOOSE r \in
         { RefRange(half, values, (first + last) \div 2 + 1, last) :
             half \in { RefRange(p, values, first, (first + last) \div 2) } } : TRUE

RefFold(p, values, i) == RefRange(p, values, i, Len(values))

RefSymbols(p) ==
  [j \in 1..8 |->
     16 * p[5 * j - 4] + 8 * p[5 * j - 3] + 4 * p[5 * j - 2] + 2 * p[5 * j - 1] + p[5 * j]]

RefChecksum(text, symbols) ==
  RefSymbols(RefFold([k \in 1..40 |-> IF k = 40 THEN 1 ELSE 0],
                     [k \in 1..Len(text) |-> text[k] % 32] \o <<0>> \o symbols
                       \o <<0, 0, 0, 0, 0, 0, 0, 0>>,
                     1))

\* C10: calculate_checksum(prefix, data) is 8 five-bit symbols, the low 40
\* bits of the accumulator after stepping from 1 over the prefix characters
\* (low 5 bits of each), a 0, the data symbols and eight 0s.
C10_ChecksumReference ==
  op = "checksum" => result.val.items = RefChecksum(prefix, data)

C10_Witness ==
  /\ op = "checksum"
  /\ Len(data) = 3
  /\ data[1] = 31
  /\ result.val.items = RefChecksum(prefix, data)
  /\ \A k \in 1..8 : result.val.items[k] \in 0..31
  /\ \E k \in 1..8 : result.val.items[k] # 0

\* C11: verify_checksum answers True exactly when the last 8 symbols of its
\* argument are calculate_checksum of the prefix and the symbols before them;
\* it answers False, and raises nothing, for an argument shorter than 8
\* symbols or malformed; data followed by its checksum verifies.
C11_VerifyTotal ==
  op = "verify" =>
    /\ result.ok
    /\ result.val \in BOOLEAN
    /\ arg.kind # "NoneType" =>
         (result.val <=>
            /\ Len(arg.items) >= CHECKSUM_LENGTH
            /\ TakeLast(arg.items, CHECKSUM_LENGTH)
                 = calculate_checksum(prefix, DropLast(arg.items, CHECKSUM_LENGTH)).items)
    /\ edit = "valid" => result.val
    /\ edit \in {"short", "corrupt", "oversize", "absent"} => ~result.val

C11_Witness ==
  /\ op = "verify"
  /\ edit = "short"
  /\ arg.kind = "bytes"
  /\ Len(arg.items) = CHECKSUM_LENGTH - 1
  /\ Len(data) = 3
  /\ result = Ok(FALSE)

----------------------------------------------------------------------------
(* Texts of any shape handed to decode *)

\* prefixes that hold a ':' themselves: "a:b" and "::"
ColonPrefixes == { <<97, Colon, 98>>, <<Colon, Colon>> }

InitShape ==
  /\ network \in Networks
  /\ prefix = NETWORK_PREFIXES[network]
  /\ payload \in { Pattern(n, seed) : n \in {0, PAYLOAD_LENGTH}, seed \in 0..MaxSeed }
  /\ version = ENCODE_VERSION
  /\ data = <<>>
  /\ address = NoText
  /\ origin = NoText
  /\ edit = "none"
  /\ op = "init"
  /\ result = NoResult
  /\ NoKey
  /\ NoAgent

\* a valid text of either network, or one whose prefix holds a ':'
SupplyShape ==
  \E p \in {NETWORK_PREFIXES[n] : n \in Networks} \cup ColonPrefixes :
    SupplyText(p, Canonical(payload, version))

\* only the first n characters of the text are handed in
Cut ==
  /\ op = "supply"
  /\ edit = "none"
  /\ \E n \in 0..(Len(address) - 1) : address' = SubSeq(address, 1, n)
  /\ edit' = "cut"
  /\ UNCHANGED <<network, prefix, payload, version, data, origin, op, result>>
  /\ UNCHANGED <<keyvars, arg>>
  /\ UNCHANGED agentvars

\* one more ':' somewhere in the text, or a 'q' in the place of a ':'
Recolon ==
  /\ op = "supply"
  /\ edit = "none"
  /\ \E k \in 1..Len(address) :
       address' = [address EXCEPT ![k] = IF @ = Colon THEN CHARSET[1] ELSE Colon]
  /\ edit' = "colon"
  /\ UNCHANGED <<network, prefix, payload, version, data, origin, op, result>>
  /\ UNCHANGED <<keyvars, arg>>
  /\ UNCHANGED agentvars

\* generator.get_address_info(args.validate)
Info ==
  /\ op = "supply"
  /\ result' = Ok(get_address_info(network, address))
  /\ op' = "info"
  /\ UNCHANGED <<network, prefix, payload, version, data, address, origin, edit>>
  /\ UNCHANGED <<keyvars, arg>>
  /\ UNCHANGED agentvars

NextShape == SupplyShape \/ Cut \/ Recolon \/ Decode \/ Validate \/ Info

SpecShape == InitShape /\ [][NextShape]_vars

HasColon(s) == \E k \in 1..Len(s) : s[k] = Colon

\* the number of characters after the last ':' of s, Len(s) when it has none
RECURSIVE AfterLastColon(_)
AfterLastColon(s) ==
  IF Len(s) = 0 \/ s[Len(s)] = Colon THEN 0
  ELSE 1 + AfterLastColon(SubSeq(s, 1, Len(s) - 1))

BeforeLastColon(s) == SubSeq(s, 1, Len(s) - AfterLastColon(s) - 1)

\* C12: a text shorter than 10 characters fails with the length error,
\* before anything else is looked at; a longer text with no ':' or with
\* fewer than 8 characters after its last ':' fails with the separator error;
\* a text that decodes is split at its last ':'.
C12_StructuralRejection ==
  op = "decode" =>
    /\ Len(address) < 10 =>
         result = Raise("ValueError", "Invalid bech32 string length")
    /\ (Len(address) >= 10 /\ (~HasColon(address) \/ AfterLastColon(address) < 8)) =>
         result = Raise("ValueError", "Invalid index of colon")
    /\ result.ok => result.val.prefix = BeforeLastColon(Lower(address))

C12_Witness ==
  /\ op = "decode"
  /\ edit = "colon"
  /\ Len(address) >= 10
  /\ address[Len(prefix) + 1] = Colon
  /\ AfterLastColon(address) = 7
  /\ result = Raise("ValueError", "Invalid index of colon")

\* C17 as stated: a generator made for a network reports an address valid
\* only if its decoded prefix is the prefix of that network, by
\* validate_address and by get_address_info alike.
C17_NetworkConfinement ==
  /\ (op = "validate" /\ result.val) =>
       hoosat_bech32_decode(address).val.prefix = NETWORK_PREFIXES[network]
  /\ (op = "info" /\ result.val.valid) =>
       result.val.prefix = NETWORK_PREFIXES[network]

\* C17, with get_address_info as it is meant: validate_address of a generator
\* made for a network answers True only if the decoded prefix is the prefix of
\* that network; get_address_info reports valid exactly for the texts that
\* decode with the prefix of some network of the table and names that network,
\* whichever network its generator is made for; decode accepts any prefix
\* whose checksum verifies.
C17_ValidateConfined ==
  /\ (op = "validate" /\ result.val) =>
       /\ hoosat_bech32_decode(address).ok
       /\ hoosat_bech32_decode(address).val.prefix = NETWORK_PREFIXES[network]
  /\ op = "info" =>
       \A r \in {hoosat_bech32_decode(address)} :
         /\ result.val.valid <=> (r.ok /\ \E n \in Networks : NETWORK_PREFIXES[n] = r.val.prefix)
         /\ result.val.valid =>
              /\ NETWORK_PREFIXES[result.val.network] = r.val.prefix
              /\ result.val.prefix = r.val.prefix
              /\ result.val.version = r.val.version
              /\ Len(result.val.hash160) = 2 * Len(r.val.payload)
  /\ (op = "decode" /\ edit = "none") => (result.ok /\ result.val.prefix = prefix)

C17_Witness ==
  /\ op = "info"
  /\ edit = "none"
  /\ network = "testnet"
  /\ prefix = NETWORK_PREFIXES["mainnet"]
  /\ Len(payload) = PAYLOAD_LENGTH
  /\ ~validate_address(network, address)
  /\ result.val.valid
  /\ result.val.network = "mainnet"

----------------------------------------------------------------------------
(* Wallet import format: keys written, texts handed in, keys read back *)

MaxKeySeed == 1

MaxWifFlip == 2

KEY_LENGTH == 32

\* secrets.token_bytes(32) drawn from a few 32-byte values, all zeros among them
WifSecrets ==
  { Pattern(KEY_LENGTH, seed) : seed \in 0..MaxKeySeed } \cup { [k \in 1..KEY_LENGTH |-> 0] }

InitWif ==
  /\ network \in Networks
  /\ prefix = NETWORK_PREFIXES[network]
  /\ payload = <<>>
  /\ version = ENCODE_VERSION
  /\ data = <<>>
  /\ address = NoText
  /\ origin = NoText
  /\ edit = "none"
  /\ op = "init"
  /\ result = NoResult
  /\ secret \in WifSecrets
  /\ compressed \in BOOLEAN
  /\ wif = NoText
  /\ encoder = network
  /\ digest = <<>>
  /\ arg = NoArg
  /\ NoAgent

\* generator.private_key_to_wif(private_key, compressed)
WifEncode ==
  /\ op = "init"
  /\ wif' = private_key_to_wif(network, secret, compressed)
  /\ origin' = wif'
  /\ result' = Ok(wif')
  /\ op' = "wif"
  /\ UNCHANGED <<network, prefix, payload, version, data, address, edit>>
  /\ UNCHANGED <<secret, compressed, encoder, digest, arg>>
  /\ UNCHANGED agentvars

\* the text is handed to a generator made for the other network
Reconfigure ==
  /\ op = "wif"
  /\ network = encoder
  /\ network' \in Networks \ {encoder}
  /\ UNCHANGED <<prefix, payload, version, data, address, origin, edit, op, result>>
  /\ UNCHANGED <<keyvars, arg>>
  /\ UNCHANGED agentvars

\* one character of the text replaced by the next one of the alphabet
WifSubstitute ==
  /\ op = "wif"
  /\ edit = "none"
  /\ \E pos \in (1..MaxWifFlip) \cup {Len(wif)} :
       wif' = [wif EXCEPT ![pos] = BASE58_ALPHABET[((Base58Index(@) + 1) % 58) + 1]]
  /\ edit' = "subst"
  /\ UNCHANGED <<network, prefix, payload, version, data, address, origin, op, result>>
  /\ UNCHANGED <<secret, compressed, encoder, digest, arg>>
  /\ UNCHANGED agentvars

\* the keys of other lengths that WifCraft writes: parts of the secret, and
\* the secret with one more byte
OddKeys(key) == { SubSeq(key, 1, n) : n \in {0, 27, 31} } \cup { key \o <<1>> }

\* a text that is the base58 form of other bytes: a version byte and 31 key
\* bytes with no checksum, or a key of another length with its checksum
WifCraft ==
  /\ op = "wif"
  /\ edit = "none"
  /\ \/ /\ wif' = b58encode(WifExtended(encoder, SubSeq(secret, 1, 31), FALSE))
        /\ edit' = "raw"
     \/ /\ \E key \in OddKeys(secret) :
             wif' = private_key_to_wif(encoder, key, compressed)
        /\ edit' = "length"
  /\ UNCHANGED <<network, prefix, payload, version, data, address, origin, op, result>>
  /\ UNCHANGED <<secret, compressed, encoder, digest, arg>>
  /\ UNCHANGED agentvars

\* generator.wif_to_private_key(wif)
WifDecode ==
  /\ op = "wif"
  /\ result' = wif_to_private_key(network, wif)
  /\ op' = "wif_decode"
  /\ UNCHANGED <<network, prefix, payload, version, data, address, origin, edit>>
  /\ UNCHANGED <<keyvars, arg>>
  /\ UNCHANGED agentvars

NextWif == WifEncode \/ Reconfigure \/ WifSubstitute \/ WifCraft \/ WifDecode

SpecWif == InitWif /\ [][NextWif]_vars

\* C14: a 32-byte secret written by private_key_to_wif, compressed or not, on
\* either network, is what wif_to_private_key reads back from that text.
C14_WifRoundTrip ==
  (op = "wif_decode" /\ edit = "none") => result = Ok(PyBytes(secret))

C14_Witness ==
  /\ op = "wif_decode"
  /\ edit = "none"
  /\ ~compressed
  /\ encoder = "testnet"
  /\ network = encoder
  /\ Len(secret) = KEY_LENGTH
  /\ \E k \in 1..KEY_LENGTH : secret[k] # 0
  /\ result = Ok(PyBytes(secret))

\* C15: reading a text back yields the secret together with the compression
\* flag (set exactly when the marker byte was written) and the network of its
\* version byte, whichever network the reading generator is made for.
C15_WifMetadata ==
  (op = "wif_decode" /\ edit = "none") =>
    result = Ok([secret |-> secret, compressed |-> compressed, network |-> encoder])

ChecksumMatches(decoded) ==
  TakeLast(decoded, 4) = DoubleShaChecksum(DropLast(decoded, 4))

\* C16 as stated: a secret is returned only if the last 4 decoded bytes are
\* the double hash of the bytes before them and those are 33 or 34 long; a
\* checksum mismatch fails with the checksum error; decoded bytes of length 32
\* or a payload of another length than 33 or 34 fail with the length error.
C16_WifRejection ==
  op = "wif_decode" =>
    \A decoded \in {b58decode(wif)} : decoded.ok =>
      \A matches \in {ChecksumMatches(decoded.val.items)} :
        /\ result.ok => (matches /\ Len(decoded.val.items) \in {37, 38})
        /\ ~matches => result = Raise("ValueError", "Invalid WIF checksum")
        /\ (Len(decoded.val.items) = 32 \/ Len(decoded.val.items) \notin {37, 38}) =>
             result = Raise("ValueError", "Invalid WIF length")

\* C16, with the order of the two tests: a secret is returned only if the last
\* 4 decoded bytes are the double hash of the bytes before them and those are
\* 33 or 34 long; a checksum mismatch fails with the checksum error, whatever
\* the length; a matching checksum on a payload of another length fails with
\* the length error; decoded bytes of length 32 fail with one of the two.
C16_WifRejectionOrdered ==
  op = "wif_decode" =>
    \A decoded \in {b58decode(wif)} : decoded.ok =>
      \A matches \in {ChecksumMatches(decoded.val.items)} :
        /\ result.ok => (matches /\ Len(decoded.val.items) \in {37, 38})
        /\ ~matches => result = Raise("ValueError", "Invalid WIF checksum")
        /\ (matches /\ Len(decoded.val.items) \notin {37, 38}) =>
             result = Raise("ValueError", "Invalid WIF length")
        /\ Len(decoded.val.items) = 32 =>
             result = Raise("ValueError", IF matches THEN "Invalid WIF length"
                                                    ELSE "Invalid WIF checksum")

C16_Witness ==
  /\ op = "wif_decode"
  /\ edit = "raw"
  /\ Len(b58decode(wif).val.items) = 32
  /\ ~ChecksumMatches(b58decode(wif).val.items)
  /\ result = Raise("ValueError", "Invalid WIF checksum")

----------------------------------------------------------------------------
(* Key generation and address derivation in both scripts *)

MaxDigestSeed == 1

\* blake3 digests of public keys: a few 32-byte values
Digests == { Pattern(KEY_LENGTH, seed) : seed \in 0..MaxDigestSeed }

ZeroKey == [k \in 1..KEY_LENGTH |-> 0]

\* secrets the curve does not accept: zero, the order, the largest value
InvalidKeys == { ZeroKey, CURVE_ORDER, [k \in 1..KEY_LENGTH |-> 255] }

\* secrets.token_bytes(32): any 32 bytes; here the invalid ones, the least
\* and the greatest valid one and a few others
GeneratedKeys ==
  InvalidKeys
    \cup { [ZeroKey EXCEPT ![KEY_LENGTH] = 1], [CURVE_ORDER EXCEPT ![KEY_LENGTH] = @ - 1] }
    \cup { Pattern(KEY_LENGTH, seed) : seed \in 0..MaxKeySeed }

InitGenerate ==
  /\ network \in Networks
  /\ prefix = NETWORK_PREFIXES[network]
  /\ payload = <<>>
  /\ version = ENCODE_VERSION
  /\ data = <<>>
  /\ address = NoText
  /\ origin = NoText
  /\ edit = "none"
  /\ op = "init"
  /\ result = NoResult
  /\ secret = <<>>
  /\ compressed \in BOOLEAN
  /\ wif = NoText
  /\ encoder = network
  /\ digest = <<>>
  /\ arg = NoArg
  /\ NoAgent

\* what a call of generate_address leaves: the key drawn, the digest if the
\* public key was made, the outcome, the address and the WIF if returned
Generated(key, dig, outcome) ==
  /\ secret' = key
  /\ digest' = IF ValidSecret(key) THEN dig ELSE digest
  /\ result' = outcome
  /\ address' = IF outcome.ok THEN outcome.val.address ELSE address
  /\ wif' = IF outcome.ok THEN outcome.val.wif ELSE wif
  /\ UNCHANGED <<network, prefix, payload, version, data, origin, edit>>
  /\ UNCHANGED <<compressed, encoder, arg>>
  /\ UNCHANGED agentvars

\* standalone: generator.generate_address(compressed)
GenerateAddress ==
  /\ op = "init"
  /\ op' = "generate"
  /\ \E key \in GeneratedKeys : \E library \in CurveLibraries : \E dig \in Digests :
       \E outcome \in { generate_address(network, compressed, key, library, dig) } :
         Generated(key, dig, outcome)

\* scripts/generate-address.py: generator.generate_address(compressed)
ScriptGenerateAddress ==
  /\ op = "init"
  /\ op' = "generate_script"
  /\ \E key \in GeneratedKeys : \E library \in CurveLibraries : \E dig \in Digests :
       \E outcome \in { script_generate_address(network, compressed, key, library, dig) } :
         Generated(key, dig, outcome)

Addressed(dig, outcome) ==
  /\ digest' = dig
  /\ result' = outcome
  /\ address' = IF outcome.ok THEN outcome.val ELSE address
  /\ UNCHANGED <<network, prefix, payload, version, data, origin, edit>>
  /\ UNCHANGED <<secret, compressed, wif, encoder, arg>>
  /\ UNCHANGED agentvars

\* standalone: generator.public_key_to_address(public_key)
PublicKeyToAddress ==
  /\ op = "init"
  /\ op' = "address"
  /\ \E dig \in Digests : Addressed(dig, public_key_to_address(network, dig))

\* scripts/generate-address.py: generator.public_key_to_address(public_key)
ScriptPublicKeyToAddress ==
  /\ op = "init"
  /\ op' = "address_script"
  /\ \E dig \in Digests : Addressed(dig, script_public_key_to_address(network, dig))

NextGenerate ==
  GenerateAddress \/ ScriptGenerateAddress \/ PublicKeyToAddress \/ ScriptPublicKeyToAddress

SpecGenerate == InitGenerate /\ [][NextGenerate]_vars

\* C18: for every public key and network the two scripts' public_key_to_address
\* return the same string, of the form <prefix>:<symbols> with symbols of the
\* alphabet, and the standalone validate_address accepts the address the
\* other script generates.
C18_SameCodec ==
  op = "address_script" =>
    /\ result = public_key_to_address(network, digest)
    /\ result.ok
    /\ Len(result.val) > Len(NETWORK_PREFIXES[network])
    /\ result.val[Len(NETWORK_PREFIXES[network]) + 1] = Colon
    /\ \A k \in (Len(NETWORK_PREFIXES[network]) + 2)..Len(result.val) : InCharset(result.val[k])
    /\ validate_address(network, result.val)

\* C19: the address generated for a public key, compressed or not, encodes
\* the version byte 0x01 followed by the first 20 bytes of the hash of the
\* public key: decoding it returns version 1 and that payload.
C19_AddressContent ==
  op = "address" =>
    /\ result.ok
    /\ hoosat_bech32_decode(result.val)
         = Expected(NETWORK_PREFIXES[network], SubSeq(digest, 1, PAYLOAD_LENGTH), 1)

----------------------------------------------------------------------------
(* The accumulator of the checksum engine, step by step *)

\* how many steps are followed
MaxSteps == 11

\* the 5-bit values stepped with: none, some and all bits set
StepValues == {0, 10, 31}

\* the address codec at rest
NoCodec ==
  /\ network = "mainnet"
  /\ prefix = NETWORK_PREFIXES[network]
  /\ payload = <<>>
  /\ version = ENCODE_VERSION
  /\ data = <<>>
  /\ address = NoText
  /\ origin = NoText
  /\ edit = "none"
  /\ op = "init"
  /\ result = NoResult
  /\ NoKey

\* calculate_checksum: polymod = 1
InitPolymod ==
  /\ NoCodec
  /\ NoAgent

\* polymod = polymod_step(polymod, value)
PolymodStep ==
  /\ steps < MaxSteps
  /\ \E value \in StepValues : polymod' = polymod_step(polymod, value)
  /\ steps' = steps + 1
  /\ UNCHANGED codecvars
  /\ UNCHANGED <<buildvars, threadvars, walletvars>>

NextPolymod == PolymodStep

SpecPolymod == InitPolymod /\ [][NextPolymod]_vars

\* the accumulator put together again from the 8 symbols that
\* calculate_checksum reads off it
FromChecksumSymbols(p) ==
  Int40(ChecksumSymbol(p, 0) * 32768 + ChecksumSymbol(p, 1) * 1024
          + ChecksumSymbol(p, 2) * 32 + ChecksumSymbol(p, 3),
        ChecksumSymbol(p, 4) * 32768 + ChecksumSymbol(p, 5) * 1024
          + ChecksumSymbol(p, 6) * 32 + ChecksumSymbol(p, 7))

\* C30: starting from 1 and stepping with 5-bit values, every accumulator p
\* satisfies 0 <= p < 2^40, so that top = p >> 35 is a 5-bit value and the
\* 40 bits read off at the end are the whole accumulator.
C30_AccumulatorBound ==
  /\ polymod[1] \in 0..(Limb - 1)
  /\ polymod[2] \in 0..(Limb - 1)
  /\ polymod[1] \div 32768 \in 0..(Pow2(Len(GENERATOR)) - 1)
  /\ FromChecksumSymbols(polymod) = polymod

\* an accumulator whose top selects all five generators, itself stepped to
\* through accumulators of 36 bits and more
C30_Witness ==
  /\ steps > 8
  /\ polymod[1] \div 32768 = 31

----------------------------------------------------------------------------
(* Prefixes that the checksum cannot tell apart *)

\* the prefixes made from p by moving some of its characters by a multiple
\* of 32: they agree with p, position by position, in ord(c) & 0x1f
AliasPrefixes(p) ==
  { [k \in 1..Len(p) |-> IF k % stride = offset THEN p[k] + shift ELSE p[k]] :
      shift \in {-64, -32, 32},
      stride \in 1..MaxStride,
      offset \in 0..(MaxStride - 1) }

InitAlias ==
  /\ network \in Networks
  /\ prefix = NETWORK_PREFIXES[network]
  /\ payload \in { Pattern(PAYLOAD_LENGTH, seed) : seed \in 0..MaxSeed }
  /\ version = ENCODE_VERSION
  /\ data = <<>>
  /\ address = NoText
  /\ origin = NoText
  /\ edit = "none"
  /\ op = "init"
  /\ result = NoResult
  /\ NoKey
  /\ NoAgent

\* the data portion of a valid address of some network is handed in behind
\* another prefix
SupplyAlias ==
  /\ op = "init"
  /\ \E n \in Networks : \E alias \in AliasPrefixes(NETWORK_PREFIXES[n]) :
       /\ prefix' = alias
       /\ origin' = AddressText(NETWORK_PREFIXES[n], Canonical(payload, version))
       /\ address' = alias \o SubSeq(origin', Len(alias) + 1, Len(origin'))
  /\ data' = Canonical(payload, version)
  /\ edit' = "alias"
  /\ op' = "supply"
  /\ UNCHANGED <<network, payload, version, result>>
  /\ UNCHANGED <<keyvars, arg>>
  /\ UNCHANGED agentvars

\* calculate_checksum(prefix, data) under the prefix of the text
ChecksumAlias ==
  /\ op = "supply"
  /\ result' = Ok(calculate_checksum(prefix, data))
  /\ op' = "checksum"
  /\ UNCHANGED <<network, prefix, payload, version, data, address, origin, edit>>
  /\ UNCHANGED <<keyvars, arg>>
  /\ UNCHANGED agentvars

NextAlias == SupplyAlias \/ ChecksumAlias \/ Decode \/ Validate

SpecAlias == InitAlias /\ [][NextAlias]_vars

\* C29: two prefixes of equal length that agree position by position in
\* ord(c) & 0x1f have the same checksum for the same data, so the data portion
\* of an address of one verifies behind the other and decodes; only the
\* prefix comparison of validate_address turns the foreign prefix down.
C29_PrefixLowBits ==
  /\ op = "checksum" =>
       /\ result = Ok(calculate_checksum(BeforeLastColon(origin), data))
       /\ verify_checksum(prefix, data \o calculate_checksum(BeforeLastColon(origin), data).items)
  /\ op = "decode" => result = Expected(Lower(prefix), payload, version)
  /\ op = "validate" => result = Ok(Lower(prefix) = NETWORK_PREFIXES[network])

\* '(//3!4' with the data portion of a mainnet address decodes
C29_Witness ==
  /\ op = "decode"
  /\ prefix = <<40, 47, 47, 51, 33, 52>>
  /\ BeforeLastColon(origin) = NETWORK_PREFIXES["mainnet"]
  /\ result.ok
  /\ result.val.prefix = prefix
  /\ result.val.payload = payload

----------------------------------------------------------------------------
(* The transaction builder on lists of UTXOs *)

\* the sender has up to MaxUtxos UTXOs
MaxUtxos == 3

\* amounts of single UTXOs: '9', '10', '700', '1500', '5000'
UtxoAmounts == { IntToText(n) : n \in {9, 10, 700, 1500, 5000} }

\* the lists the API may return: outpoints are numbered in the order listed
UtxoLists ==
  { [k \in 1..Len(q) |-> [outpoint |-> k, amount |-> q[k]]] :
      q \in SeqsUpTo(UtxoAmounts, MaxUtxos) }

\* amounts asked for, in sompi
AmountChoices == {0, 10, 1000, 6000}

\* fee rates, as texts: '1' and '5'
FeeRates == { IntToText(n) : n \in {1, 5} }

InitBuild ==
  /\ NoCodec
  /\ polymod = Int40(0, 1)
  /\ steps = 0
  /\ threads = <<>>
  /\ module = [charset |-> CHARSET, generator |-> GENERATOR]
  /\ utxos \in UtxoLists
  /\ amount \in AmountChoices
  /\ fee_rate \in FeeRates
  /\ recipient = NoText
  /\ manager = NewManager(SESSION_TIMEOUT, PyNone, FALSE)
  /\ clock = 0
  /\ lastcall = NoCall

\* builder.select_utxos(utxos, amount)
SelectUtxos ==
  /\ op = "init"
  /\ result' = select_utxos(utxos, amount)
  /\ op' = "select_utxos"
  /\ UNCHANGED <<network, prefix, payload, version, data, address, origin, edit>>
  /\ UNCHANGED <<keyvars, arg>>
  /\ UNCHANGED agentvars

\* builder.build_transaction(sender, recipient, amount, key, fee_rate) of a
\* builder of either network, with the sender's UTXOs as get_utxos returns them
BuildTransaction ==
  /\ op = "init"
  /\ \E n \in Networks, from \in Networks, to \in Networks :
       /\ network' = n
       /\ address' = BuilderPrefix(from) \o <<CHARSET[1]>>
       /\ recipient' = BuilderPrefix(to) \o <<CHARSET[2]>>
       /\ result' = build_transaction(n, address', recipient', utxos, amount, fee_rate)
  /\ op' = "build_transaction"
  /\ UNCHANGED <<prefix, payload, version, data, origin, edit>>
  /\ UNCHANGED <<keyvars, arg>>
  /\ UNCHANGED <<polymod, steps, utxos, amount, fee_rate>>
  /\ UNCHANGED <<threadvars, walletvars>>

NextBuild == SelectUtxos \/ BuildTransaction

SpecBuild == InitBuild /\ [][NextBuild]_vars

RECURSIVE SumAmounts(_)
SumAmounts(us) ==
  IF Len(us) = 0 THEN 0 ELSE UtxoAmount(us[1]) + SumAmounts(Tail(us))

RECURSIVE SumTexts(_)
SumTexts(ts) ==
  IF Len(ts) = 0 THEN 0 ELSE ParseInt(ts[1]) + SumTexts(Tail(ts))

\* C27: for amount_needed > 0, select_utxos raises 'Insufficient funds'
\* exactly when all UTXOs together are below the amount; otherwise total is the
\* sum of the selected amounts and reaches the amount, and the selected UTXOs
\* are the shortest prefix of the UTXOs in descending order of amount that does:
\* distinct UTXOs of the list, in descending order, none left out that is
\* larger than one selected, and one fewer would not reach the amount.
C27_SelectionCovers ==
  (op = "select_utxos" /\ amount > 0) =>
    /\ result.ok <=> SumAmounts(utxos) >= amount
    /\ ~result.ok => result = Raise("Exception", "Insufficient funds")
    /\ result.ok =>
         \A sel \in {result.val.selected} :
           /\ result.val.total = SumAmounts(sel)
           /\ result.val.total >= amount
           /\ Len(sel) > 0
           /\ SumAmounts(SubSeq(sel, 1, Len(sel) - 1)) < amount
           /\ \A k \in 1..Len(sel) : utxos[sel[k].outpoint] = sel[k]
           /\ \A j, k \in 1..Len(sel) : j < k =>
                /\ sel[j].outpoint # sel[k].outpoint
                /\ UtxoAmount(sel[j]) >= UtxoAmount(sel[k])
           /\ \A i \in 1..Len(utxos) :
                (\A k \in 1..Len(sel) : sel[k].outpoint # i) =>
                  UtxoAmount(utxos[i]) <= UtxoAmount(sel[Len(sel)])

\* two of three UTXOs selected, the list not in descending order as it came
C27_Witness ==
  /\ op = "select_utxos"
  /\ amount > 0
  /\ Len(utxos) = MaxUtxos
  /\ UtxoAmount(utxos[1]) < UtxoAmount(utxos[2])
  /\ result.ok
  /\ Len(result.val.selected) = 2
  /\ result.val.selected[1] = utxos[2]

\* C28: in every transaction build_transaction returns, the output amounts
\* and the reported fee add up to the reported total_input, the reported
\* change is the amount of the change output (0 when there is none), and the
\* change is not negative.
C28_ValueConservation ==
  (op = "build_transaction" /\ result.ok) =>
    /\ SumTexts(result.val.outputs) + result.val.fee = result.val.total_input
    /\ result.val.change =
         (IF Len(result.val.outputs) > 1 THEN ParseInt(result.val.outputs[2]) ELSE 0)
    /\ result.val.change >= 0

----------------------------------------------------------------------------
(* Threads calling the codec at the same time *)

Threads == {"t1", "t2"}

Idle == Frame("none", <<>>, <<>>)

\* the calls a thread may make; address and wif are the texts it may hand to
\* hoosat_bech32_decode and wif_to_private_key
CallChoices ==
  { Frame("convert_bits", [data |-> <<255, 1>>, from_bits |-> 8, to_bits |-> 5, pad |-> TRUE],
          [acc |-> 0, bits |-> 0, out |-> <<>>]),
    Frame("convert_bits", [data |-> <<31, 0, 7>>, from_bits |-> 5, to_bits |-> 8, pad |-> FALSE],
          [acc |-> 0, bits |-> 0, out |-> <<>>]),
    Frame("calculate_checksum", [prefix |-> NETWORK_PREFIXES["mainnet"], data |-> <<1, 31>>],
          Int40(0, 1)),
    Frame("verify_checksum",
          [prefix |-> NETWORK_PREFIXES["mainnet"],
           data |-> <<7>> \o calculate_checksum(NETWORK_PREFIXES["mainnet"], <<7>>).items],
          Int40(0, 1)),
    Frame("verify_checksum",
          [prefix |-> NETWORK_PREFIXES["mainnet"],
           data |-> <<8>> \o calculate_checksum(NETWORK_PREFIXES["mainnet"], <<7>>).items],
          Int40(0, 1)),
    Frame("encode_to_base32", [data |-> <<0, 31, 7>>], <<>>),
    Frame("encode_to_base32", [data |-> <<5, 32>>], <<>>),
    Frame("decode_from_base32", [s |-> <<113, 81, 108>>], <<>>),
    Frame("decode_from_base32", [s |-> <<113, 98>>], <<>>),
    Frame("hoosat_bech32_encode",
          [prefix |-> NETWORK_PREFIXES["mainnet"], payload |-> payload], <<>>),
    Frame("hoosat_bech32_decode", [encoded |-> address], <<>>),
    Frame("hoosat_bech32_decode",
          [encoded |-> [address EXCEPT ![Len(address)] =
                          IF @ = CHARSET[1] THEN CHARSET[2] ELSE CHARSET[1]]], <<>>),
    Frame("private_key_to_wif",
          [network |-> "mainnet", private_key |-> Pattern(KEY_LENGTH, 0), compressed |-> TRUE],
          <<>>),
    Frame("wif_to_private_key", [network |-> "mainnet", wif |-> wif], <<>>) }

InitThreads ==
  /\ network = "mainnet"
  /\ prefix = NETWORK_PREFIXES[network]
  /\ payload = Pattern(PAYLOAD_LENGTH, 0)
  /\ version = ENCODE_VERSION
  /\ data = <<>>
  /\ address = AddressText(prefix, Canonical(payload, version))
  /\ origin = address
  /\ edit = "none"
  /\ op = "init"
  /\ result = NoResult
  /\ secret = Pattern(KEY_LENGTH, 1)
  /\ compressed = FALSE
  /\ encoder = "testnet"
  /\ wif = private_key_to_wif(encoder, secret, compressed)
  /\ digest = <<>>
  /\ arg = NoArg
  /\ polymod = Int40(0, 1)
  /\ steps = 0
  /\ utxos = <<>>
  /\ amount = 0
  /\ fee_rate = NoText
  /\ recipient = NoText
  /\ threads = [t \in Threads |-> Idle]
  /\ module = [charset |-> CHARSET, generator |-> GENERATOR]
  /\ manager = NewManager(SESSION_TIMEOUT, PyNone, FALSE)
  /\ clock = 0
  /\ lastcall = NoCall

\* a thread calls a function of the codec
ThreadCall ==
  /\ \E t \in Threads :
       /\ threads[t] = Idle
       /\ \E frame \in CallChoices : threads' = [threads EXCEPT ![t] = frame]
  /\ UNCHANGED module
  /\ UNCHANGED codecvars
  /\ UNCHANGED <<polymod, steps, buildvars, walletvars>>

\* the scheduler lets a thread take the next step of its call
ThreadStep ==
  /\ \E t \in Threads :
       /\ threads[t] # Idle
       /\ ~threads[t].done
       /\ \E stepped \in { StepOf(threads[t], module) } :
            threads' = [threads EXCEPT ![t] = stepped]
       /\ module' = ModuleAfter(threads[t], module)
  /\ UNCHANGED codecvars
  /\ UNCHANGED <<polymod, steps, buildvars, walletvars>>

NextThreads == ThreadCall \/ ThreadStep

SpecThreads == InitThreads /\ [][NextThreads]_vars

\* C21: under any interleaving of the steps of concurrent calls, a call that
\* has returned has returned what it returns when it runs alone on its
\* arguments, and CHARSET and GENERATOR are what the module set them to.
C21_NoInterference ==
  /\ module = [charset |-> CHARSET, generator |-> GENERATOR]
  /\ \A t \in Threads : threads[t].done => threads[t].ret = RunAlone(threads[t])

\* a checksum has been calculated while a decode in another thread is between
\* its base32 step and its checksum step
C21_Witness ==
  /\ threads["t1"].call = "calculate_checksum"
  /\ threads["t1"].done
  /\ threads["t2"].call = "hoosat_bech32_decode"
  /\ threads["t2"].pc = 3
  /\ ~threads["t2"].done

----------------------------------------------------------------------------
(* The wallet manager of an agent: bring-up, wallets, settings, transfers   *)

MaxTicks == 2

\* the clock moves half a session timeout at a time
TICK == SESSION_TIMEOUT \div 2

Passwords == {PyStr("pw1"), PyStr("pw2")}

WalletNames == {"main", "spare"}

\* what secrets.token_hex gives, and a key to import
PrivateKeys == {"k1"}

\* the recipients of a transfer: a label or wallet name, or an address
Recipients ==
  {[id |-> "main", is_address |-> FALSE], [id |-> "friend", is_address |-> FALSE],
   [id |-> "hoosat:q", is_address |-> TRUE]}

TransferAmounts == {500, 2000}

MaxAmounts == {IntToText(1000)}

\* the wallets that get an auto-approve entry
AutoApproved == {"main"}

\* what the network answers to one transfer
ApiAnswers ==
  { [balance |-> Raise("failed", "API error"), utxos |-> Ok(0)],
    [balance |-> Ok(IntToText(1000)), utxos |-> Ok(0)],
    [balance |-> Ok(IntToText(1000)), utxos |-> Ok(1)] }

Confirms == {PyNone, PyBool(TRUE), PyBool(FALSE)}

InitWallet ==
  /\ NoCodec
  /\ polymod = Int40(0, 1)
  /\ steps = 0
  /\ utxos = <<>>
  /\ amount = 0
  /\ fee_rate = NoText
  /\ recipient = NoText
  /\ threads = <<>>
  /\ module = [charset |-> CHARSET, generator |-> GENERATOR]
  /\ manager = NewManager(SESSION_TIMEOUT, PyNone, FALSE)
  /\ clock = 0
  /\ lastcall = NoCall

\* the manager runs a method to its end
Called(call, args, done) ==
  /\ \E d \in {done} :
       /\ manager' = d.w
       /\ lastcall' = [call |-> call, args |-> args, out |-> d.out, before |-> manager]
  /\ UNCHANGED clock
  /\ UNCHANGED codecvars
  /\ UNCHANGED <<polymod, steps, buildvars, threadvars>>

Initialize == \E p \in Passwords : Called("initialize", <<p>>, initialize(manager, clock, p))

Unlock == \E p \in Passwords : Called("unlock", <<p>>, unlock(manager, clock, p))

Lock == Called("lock", <<>>, lock(manager))

CreateWallet ==
  \E name \in WalletNames, k \in PrivateKeys :
    Called("create_wallet", <<name>>, create_wallet(manager, clock, name, "testnet", k))

ImportWallet ==
  \E name \in WalletNames, k \in PrivateKeys :
    Called("import_wallet", <<name>>, import_wallet(manager, clock, name, k, "testnet"))

GetWallet == \E name \in WalletNames : Called("get_wallet", <<name>>, get_wallet(manager, clock, name))

ListWallets == Called("list_wallets", <<>>, list_wallets(manager, clock))

DeleteWallet ==
  \E name \in WalletNames : Called("delete_wallet", <<name>>, delete_wallet(manager, clock, name))

ExportWallet ==
  \E name \in WalletNames : Called("export_wallet", <<name>>, export_wallet(manager, clock, name))

\* manager.session.get_password()
GetPassword ==
  \E r \in { get_password(manager.session, manager.environ, clock) } :
    Called("get_password", <<>>, Done(AfterSession(manager, r), r.out))

\* manager.session.is_active()
IsActive ==
  \E r \in { is_active(manager.session, manager.environ, clock) } :
    Called("is_active", <<>>, Done(AfterSession(manager, r), r.out))

SetAutoApprove ==
  \E name \in AutoApproved, m \in MaxAmounts, enabled \in BOOLEAN :
    Called("set_auto_approve", <<name, enabled>>, set_auto_approve(manager, name, m, enabled))

\* manager.add_address(label, address)
AddAddress == Called("add_address", <<"friend">>, add_address(manager, "friend", PyStr("hoosat:p")))

SetDryRun == \E b \in BOOLEAN : Called("set_dry_run", <<b>>, set_dry_run(manager, b))

SetConfirmTransactions ==
  \E b \in BOOLEAN :
    Called("set_confirm_transactions", <<b>>, set_confirm_transactions(manager, b))

\* executor.transfer(from_wallet, to_address, amount_htn, confirm)
Transfer ==
  \E from \in WalletNames, to \in Recipients, a \in TransferAmounts,
     confirm \in Confirms, api \in ApiAnswers :
    \E t \in { transfer(manager, clock, from, to.id, to.is_address, a, confirm, api) } :
      Called("transfer", <<from, a, confirm>>, Done(t.w, Ok(t.out)))

\* whoever starts the agent exports or unsets HOOSAT_AGENT_PASSWORD
SetEnviron ==
  /\ \E e \in Passwords \cup {PyNone} :
       /\ e # manager.environ
       /\ manager' = [manager EXCEPT !.environ = e]
  /\ lastcall' = NoCall
  /\ UNCHANGED clock
  /\ UNCHANGED codecvars
  /\ UNCHANGED <<polymod, steps, buildvars, threadvars>>

\* time passes
Tick ==
  /\ clock < MaxTicks * TICK
  /\ clock' = clock + TICK
  /\ lastcall' = NoCall
  /\ UNCHANGED manager
  /\ UNCHANGED codecvars
  /\ UNCHANGED <<polymod, steps, buildvars, threadvars>>

NextWallet ==
  \/ Initialize \/ Unlock \/ Lock
  \/ CreateWallet \/ ImportWallet \/ GetWallet \/ ListWallets \/ DeleteWallet \/ ExportWallet
  \/ GetPassword \/ IsActive
  \/ SetEnviron \/ Tick

SpecWallet == InitWallet /\ [][NextWallet]_vars

\* the config file of the directory may have autoApprove switched on
InitTransfer ==
  /\ NoCodec
  /\ polymod = Int40(0, 1)
  /\ steps = 0
  /\ utxos = <<>>
  /\ amount = 0
  /\ fee_rate = NoText
  /\ recipient = NoText
  /\ threads = <<>>
  /\ module = [charset |-> CHARSET, generator |-> GENERATOR]
  /\ \E auto_approve \in BOOLEAN : manager = NewManager(SESSION_TIMEOUT, PyNone, auto_approve)
  /\ clock = 0
  /\ lastcall = NoCall

NextTransfer ==
  \/ Initialize \/ CreateWallet \/ AddAddress
  \/ SetAutoApprove \/ SetDryRun \/ SetConfirmTransactions
  \/ Transfer
  \/ SetEnviron

SpecTransfer == InitTransfer /\ [][NextTransfer]_vars

\* the stored wallets of a wallets file
StoredWallets(token) == json_loads(token.plain).wallets

\* the calls that read or change the wallets
WalletCalls ==
  {"get_wallet", "list_wallets", "export_wallet", "delete_wallet", "create_wallet",
   "import_wallet"}

\* the manager right after create_wallet(name) on the manager as it is
Created(name) == create_wallet(manager, clock, name, "testnet", "k1")

\* C22: initialize(password) on a directory without a wallets file, and
\* unlock(password) with the password of the wallets file, return True and
\* leave the session active; create_wallet with an unused name then returns
\* a wallet that list_wallets lists and get_wallet returns.
C22_BringUp ==
  (\/ lastcall.call = "initialize" /\ lastcall.before.wallets_file = PyNone
   \/ /\ lastcall.call = "unlock"
      /\ lastcall.before.wallets_file # PyNone
      /\ lastcall.args[1].val = lastcall.before.wallets_file.key)
  => /\ lastcall.out = Ok(TRUE)
     /\ is_active(manager.session, manager.environ, clock).out = Ok(TRUE)
     /\ \A name \in WalletNames \ DOMAIN StoredWallets(manager.wallets_file) :
          \A made \in { Created(name) } :
            /\ made.out.ok
            /\ name \in list_wallets(made.w, clock).out.val
            /\ get_wallet(made.w, clock, name).out = made.out

\* the stores whose encryption is checked: no wallet, one, two
Stores ==
  { [wallets |-> [n \in names |-> NewWallet(n, "k1", "testnet")], version |-> STORE_VERSION] :
      names \in SUBSET WalletNames }

\* the first half of C23: a store encrypted under a password decrypts to
\* the same store under it, and verify_password is true for that password
\* and for no other
C23_RoundTrip ==
  \A p \in Passwords, q \in Passwords, store \in Stores :
    /\ decrypt(p, encrypt(p, store)) = Ok(store)
    /\ verify_password(q, encrypt(p, store)) <=> q = p

\* C23: a store encrypted under a password decrypts to the same store under
\* it and verify_password is true for that password only; unlock(p) returns
\* True exactly when p is the password of the wallets file, and an unlock
\* that returns False leaves the session and the caches as they were.
C23_PasswordCheck ==
  /\ C23_RoundTrip
  /\ lastcall.call = "unlock" /\ lastcall.before.wallets_file # PyNone
     => (lastcall.out = Ok(TRUE)
           <=> lastcall.args[1].val = lastcall.before.wallets_file.key)
  /\ lastcall.call = "unlock" /\ lastcall.out = Ok(FALSE)
     => /\ manager.session = lastcall.before.session
        /\ manager.wallets_cache = lastcall.before.wallets_cache

\* timeout seconds or more have passed since the last access of the session;
\* a session whose clock was never started counts as timed out
TimedOut(session) ==
  \/ session.last_access = PyNone
  \/ clock - session.last_access.val >= session.timeout

C25_LockedInaccessible ==
  /\ lastcall.call \in WalletCalls
  /\ is_active(lastcall.before.session, lastcall.before.environ, clock).out # Ok(TRUE)
  => /\ lastcall.out = Raise("Exception", LOCKED)
     /\ manager.wallets_file = lastcall.before.wallets_file

\* the part of C25 that the calls keep: no wallet is returned and the
\* wallets file is not changed while the session is not active
C25_NothingLeaks ==
  /\ lastcall.call \in WalletCalls
  /\ is_active(lastcall.before.session, lastcall.before.environ, clock).out # Ok(TRUE)
  => /\ ~lastcall.out.ok
     /\ manager.wallets_file = lastcall.before.wallets_file

\* the transfer needs a confirmation that it does not have
NeedsConfirmation(w, from_wallet, amount_sompi, confirm) ==
  /\ IF confirm # PyNone THEN confirm.val ELSE should_confirm(w)
  /\ ~should_auto_approve(w, from_wallet, IntToText(amount_sompi))

\* C26: transfer returns success only when no confirmation is needed or the
\* wallet is auto-approved for the amount; otherwise it returns the error
\* 'requires confirmation' and appends nothing to the transaction log.
C26_ConfirmationGate ==
  lastcall.call = "transfer"
  => IF NeedsConfirmation(lastcall.before, lastcall.args[1], lastcall.args[2], lastcall.args[3])
     THEN /\ ~lastcall.out.val.success
          /\ lastcall.out.val.error = "Transaction requires confirmation"
          /\ manager.transaction_log = lastcall.before.transaction_log
     ELSE TRUE

\* no transfer returns success
C26_NeverSucceeds == lastcall.call = "transfer" => ~lastcall.out.val.success

\* the session never gets a start time and no call returns a password
SessionNeverStarts ==
  /\ manager.session.last_access = PyNone
  /\ DOMAIN manager.wallets_cache = {}
  /\ lastcall.call \in {"initialize", "unlock"} => lastcall.out = Ok(FALSE)
  /\ lastcall.call \in {"get_password"} /\ lastcall.out.ok => lastcall.out.val = PyNone

====
